---- MODULE Spec2Model ----
(***************************************************************************)
(* Model of the localreco backend aggregation core: the CacheService       *)
(* (node-cache store with TTL, getOrCompute, sliding-window rate limit)    *)
(* and the searchAndAggregate orchestrator built on it.                    *)
(* Times are epoch milliseconds, as Date.now() returns them.               *)
(***************************************************************************)
EXTENDS Integers, Sequences, FiniteSets, TLC

(* ---------------- program constants ---------------- *)

\* CacheService.maxRequestsPerMinute
maxRequestsPerMinute == 30

\* the 60000 of "now - 60000" in isWithinRateLimit
WindowMs == 60000

\* new CacheService(3600): the default TTL of the shared instance, seconds
cacheTTLSeconds == 3600

(* ---------------- bounds of the model ---------------- *)

\* the rate-limit clock advances at most this many half-windows
MaxRateTicks == 2

\* withRateLimit calls issued for the main identifier within one epoch
MaxWinCalls == 32

\* withRateLimit calls issued for the second identifier
MaxOtherCalls == 1

\* the cache clock advances at most this many half-TTLs
MaxCacheTicks == 2

\* callers with a getOrCompute call in flight at one time
MaxCallers == 2

\* the longest list of mentions handed to aggregateRestaurantMentions
MaxMentions == 3

\* the most fragments a text handed to extractRestaurantMentions is put together from
MaxFragments == 2

\* the comments handed to analyzeRestaurantSentiment at most
MaxComments == 2

\* the subreddits handed to searchReddit at most
MaxSubreddits == 3

\* searchQuery calls whose request may be in flight together
MaxQueries == 2

\* searchAndAggregate calls that overlap when their interleavings are gone through
MaxConcurrent == 2

\* searchAndAggregate calls that may be in flight together
MaxSearches == 1

\* steps of the clock of the search cache
MaxSearchTicks == 2

RateTickMs == WindowMs \div 2
CacheTickMs == (cacheTTLSeconds * 1000) \div 2
SearchTickMs == (cacheTTLSeconds * 1000 * 2) \div 3

Identifiers == {"user1", "user2"}
OtherIdentifier == "user2"
NoKey == <<>>
Keys == {<<"k", "e", "y", "1">>, <<"k", "e", "y", "2">>}
Values == {"v1", "v2"}
\* what the rate-limited computeFn resolves to
RateValues == {"success"}
Callers == 1..MaxCallers
SearchCallers == 1..MaxSearches
ConcurrentCallers == 1..MaxConcurrent

\* JavaScript's undefined and null
Undefined == "undefined"
Null == "null"
NoEntry == [absent |-> TRUE]

\* ttlSeconds arguments in seconds; an omitted ttlSeconds is written 0, which
\* "ttlSeconds || this.cacheTTLSeconds" treats exactly like undefined
TtlArgs == {0, cacheTTLSeconds \div 2}

\* the ttlSeconds of getOrCompute calls: every caller omits it
GetOrComputeTtlArgs == {0}

VARIABLES
    now,               \* Date.now()
    cache,             \* NodeCache data: key -> NoEntry or [v, t]
    rateLimitTracker,  \* identifier -> request timestamps (absent: not in DOMAIN)
    rl,                \* the last withRateLimit call and its outcome
    admitted,          \* per identifier: times of computeFn invocations in the trailing window
    win,               \* per identifier: start and call count of the current epoch
    goc,               \* the getOrCompute call in flight of each caller
    ret,               \* what the getOrCompute step just taken did
    pair,              \* two getOrCompute calls started back to back on one absent key
    search,            \* the searchAndAggregate call in flight of each caller
    prev,              \* the searchAndAggregate call that returned last
    lastSet,           \* per key: the latest set since the last clear, as the caller made it
    pure,              \* a function of the text pipeline applied on its own: input and output
    store,             \* the cache's backing store: "up", or "down" when its calls throw
    queryState,        \* QueryProvider's state
    inFlight           \* the POST /api/search requests of searchQuery calls not yet settled

\* the variables of the frontend
frontend == <<queryState, inFlight>>

vars == <<now, cache, rateLimitTracker, rl, admitted, win, goc, ret, pair, search, prev,
          lastSet, pure, store, queryState, inFlight>>

(* ---------------- QueryProvider ---------------- *)

\* the initial QueryState
initialState == [status |-> "idle", data |-> Null, total |-> 0]

\* the state set before the request is posted
LoadingState == [status |-> "loading", data |-> Null, total |-> 0]

\* the requests searchQuery is called with
QueryRequests == {[city |-> city, query |-> query] : city \in {"London", "Paris"},
                                                    query \in {"coffee", "pizza"}}

\* what axios.post settles with: a response whose data holds results and total, a response
\* without data, an axios error carrying the server's error text (or none, or an empty
\* one) and its own message, or a rejection with something that is no axios error
QueryReplies ==
    {[kind |-> "response", results |-> results, total |-> total] :
        results \in {"results", "no results"}, total \in {0, 2}}
    \cup {[kind |-> "no data"]}
    \cup {[kind |-> "axios error", error |-> error, message |-> "Network Error"] :
             error \in {"Server error", "", Undefined}}
    \cup {[kind |-> "other error"]}

\* JavaScript's truthiness of a string or undefined
Truthy(v) == v # Undefined /\ v # ""

\* a provider that reports every settled request as a success
SettledStateAlwaysSuccess(reply) == [status |-> "success", data |-> Null, total |-> 0]

\* the state set once axios.post has settled: the success state, or from the catch the
\* error state; reading results of a response without data throws inside the try
SettledState(reply) ==
    IF reply.kind = "response"
    THEN [status |-> "success", data |-> reply.results, total |-> reply.total]
    ELSE [status |-> "error", data |-> Null, total |-> 0,
          error |-> IF reply.kind = "axios error"
                    THEN (IF Truthy(reply.error) THEN reply.error ELSE reply.message)
                    ELSE "An unknown error occurred"]

\* no later call of searchQuery has settled while this one was awaiting
NoReply == [kind |-> "none"]

\* the requests left in flight once the i-th has settled with reply; each one issued
\* before it takes note of what the latest call that settled meanwhile settled with
StillInFlight(requests, i, reply) ==
    [j \in 1..(Len(requests) - 1) |->
        IF j < i
        THEN [requests[j] EXCEPT !.newer = IF requests[i].newer = NoReply THEN reply
                                           ELSE requests[i].newer]
        ELSE requests[j + 1]]

\* searchQuery up to its await: the loading state is set and the request posted
SearchQuery(request) ==
    /\ Len(inFlight) < MaxQueries
    /\ queryState' = LoadingState
    /\ inFlight' = Append(inFlight, [city |-> request.city, query |-> request.query,
                                     newer |-> NoReply])
    /\ ret' = [phase |-> "searchQuery", request |-> request, pairDone |-> FALSE]
    /\ UNCHANGED <<now, cache, rateLimitTracker, rl, admitted, win, goc, pair, search, prev,
                   lastSet, pure, store>>

\* the i-th request in flight settles with reply: the rest of searchQuery
QuerySettles(i, reply) ==
    /\ i \in DOMAIN inFlight
    /\ queryState' = SettledState(reply)
    /\ inFlight' = StillInFlight(inFlight, i, reply)
    /\ ret' = [phase |-> "settled", request |-> inFlight[i], reply |-> reply,
               pairDone |-> FALSE]
    /\ UNCHANGED <<now, cache, rateLimitTracker, rl, admitted, win, goc, pair, search, prev,
                   lastSet, pure, store>>

\* clearQuery
ClearQuery ==
    /\ queryState' = initialState
    /\ ret' = [phase |-> "clearQuery", pairDone |-> FALSE]
    /\ UNCHANGED <<now, cache, rateLimitTracker, rl, admitted, win, goc, pair, search, prev,
                   lastSet, pure, store, inFlight>>

(* ---------------- CacheService: the node-cache store ---------------- *)

\* an entry that is expired from its expiry time on
ExpiredAtExpiry(entry, t) == entry.t <= t

\* node-cache _check: an entry is expired once its expiry time t is before now
Expired(entry, t) == entry.t < t

\* CacheService.get: the stored value, or undefined when absent or expired
CacheGet(c, key, t) ==
    IF c[key] = NoEntry \/ Expired(c[key], t) THEN Undefined ELSE c[key].v

\* node-cache get deletes an entry it finds expired
CacheAfterGet(c, key, t) ==
    IF c[key] # NoEntry /\ Expired(c[key], t) THEN [c EXCEPT ![key] = NoEntry] ELSE c

\* "ttlSeconds || this.cacheTTLSeconds"
EffectiveTtl(ttlSeconds) ==
    IF ttlSeconds = 0 THEN cacheTTLSeconds ELSE ttlSeconds

\* a set that leaves a present entry's expiry time as it is
CacheSetKeepsExpiry(c, key, value, ttlSeconds, t) ==
    [c EXCEPT ![key] = [v |-> value,
                        t |-> IF c[key] = NoEntry
                              THEN t + EffectiveTtl(ttlSeconds) * 1000 ELSE c[key].t]]

\* CacheService.set: overwrite the entry, expiry restarted from now
CacheSet(c, key, value, ttlSeconds, t) ==
    [c EXCEPT ![key] = [v |-> value, t |-> t + EffectiveTtl(ttlSeconds) * 1000]]

\* a clear that drops nothing
CacheClearKeeps(c) == c

\* CacheService.clear: flushAll
CacheClear(c) == [k \in DOMAIN c |-> NoEntry]

\* no set of the key since the cache was created or last cleared
NoWrite == [never |-> TRUE]

\* the call set(key, value, ttlSeconds) made at time t, as its caller means it: the value,
\* and the time up to which it is to last (an omitted ttlSeconds is written 0)
WriteOf(value, ttlSeconds, t) ==
    [v |-> value,
     until |-> t + (IF ttlSeconds = 0 THEN cacheTTLSeconds ELSE ttlSeconds) * 1000]

(* ---------------- CacheService: the rate limiter ---------------- *)

\* rateLimitTracker.get(identifier) after the "has" check has put [] for a new one
Requests(tracker, identifier) ==
    IF identifier \in DOMAIN tracker THEN tracker[identifier] ELSE <<>>

\* a filter whose window is a tenth of a minute
RecentRequestsShortWindow(requests, t) ==
    SelectSeq(requests, LAMBDA timestamp : timestamp > t - WindowMs \div 10)

\* a filter that keeps the timestamp that is exactly one minute old
RecentRequestsInclusive(requests, t) ==
    SelectSeq(requests, LAMBDA timestamp : timestamp >= t - WindowMs)

\* requests.filter(timestamp => timestamp > oneMinuteAgo)
RecentRequests(requests, t) ==
    SelectSeq(requests, LAMBDA timestamp : timestamp > t - WindowMs)

\* a limiter that lets the request through when the window is exactly full
IsWithinRateLimitOffByOne(tracker, identifier, t) ==
    Len(RecentRequests(Requests(tracker, identifier), t)) <= maxRequestsPerMinute

\* the value isWithinRateLimit returns
IsWithinRateLimit(tracker, identifier, t) ==
    Len(RecentRequests(Requests(tracker, identifier), t)) < maxRequestsPerMinute

\* a tracker that keeps one list for all identifiers
TrackerAfterCheckShared(tracker, identifier, t) ==
    LET requests == Requests(tracker, identifier)
        recentRequests == RecentRequests(requests, t)
        stored == IF IsWithinRateLimit(tracker, identifier, t)
                  THEN Append(recentRequests, t)
                  ELSE requests
    IN  [i \in DOMAIN tracker \cup {identifier} |-> stored]

\* a tracker that records the time of a refused request too
TrackerAfterCheckRecordsRefused(tracker, identifier, t) ==
    [i \in DOMAIN tracker \cup {identifier} |->
        IF i = identifier THEN Append(RecentRequests(Requests(tracker, identifier), t), t)
        ELSE tracker[i]]

\* the tracker isWithinRateLimit leaves behind
TrackerAfterCheck(tracker, identifier, t) ==
    LET requests == Requests(tracker, identifier)
        recentRequests == RecentRequests(requests, t)
        stored == IF IsWithinRateLimit(tracker, identifier, t)
                  THEN Append(recentRequests, t)
                  ELSE requests
    IN  [i \in DOMAIN tracker \cup {identifier} |->
            IF i = identifier THEN stored ELSE tracker[i]]

\* withRateLimit: null when refused, otherwise computeFn is invoked and its value returned
WithRateLimitOutcome(within, value) ==
    IF ~within THEN [invoked |-> FALSE, result |-> Null]
               ELSE [invoked |-> TRUE, result |-> value]

\* the invocation times still inside the trailing window at time t
InWindow(times, t) == SelectSeq(times, LAMBDA ts : ts > t - WindowMs)

CallCap(identifier) ==
    IF identifier = OtherIdentifier THEN MaxOtherCalls ELSE MaxWinCalls

\* the latest withRateLimit call; refused is the time its identifier was last refused in
\* the calls made for it in a row, -1 if it was not; refusals counts the refusals that came
\* right before the call, itself included
NoRl == [id |-> "none", at |-> 0, start |-> 0, n |-> 0,
         invoked |-> FALSE, result |-> Null, value |-> Null, refused |-> -1,
         refusals |-> 0]

WithRateLimit(identifier, value) ==
    LET seen == InWindow(admitted[identifier], now)
        fresh == seen = <<>>
        epoch == IF fresh THEN [start |-> now, calls |-> 1]
                          ELSE [win[identifier] EXCEPT !.calls = @ + 1]
        out == WithRateLimitOutcome(
                   IsWithinRateLimit(rateLimitTracker, identifier, now), value)
    IN  /\ fresh \/ win[identifier].calls < CallCap(identifier)
        /\ rateLimitTracker' = TrackerAfterCheck(rateLimitTracker, identifier, now)
        /\ admitted' = [admitted EXCEPT ![identifier] =
                            IF out.invoked THEN Append(seen, now) ELSE seen]
        /\ win' = [win EXCEPT ![identifier] = epoch]
        /\ rl' = [id |-> identifier, at |-> now, start |-> epoch.start,
                  n |-> epoch.calls, invoked |-> out.invoked,
                  result |-> out.result, value |-> value,
                  refused |-> IF ~out.invoked THEN now
                              ELSE IF rl.id = identifier THEN rl.refused ELSE -1,
                  refusals |-> IF rl.id = identifier /\ ~rl.invoked
                               THEN rl.refusals + (IF out.invoked THEN 0 ELSE 1)
                               ELSE IF out.invoked THEN 0 ELSE 1]
        /\ UNCHANGED <<now, cache, goc, ret, pair, search, prev, lastSet, pure, store, frontend>>

\* time passes between requests
TickRate ==
    /\ now < MaxRateTicks * RateTickMs
    /\ now' = now + RateTickMs
    /\ admitted' = [i \in Identifiers |-> InWindow(admitted[i], now')]
    /\ UNCHANGED <<cache, rateLimitTracker, rl, win, goc, ret, pair, search, prev, lastSet, pure, store, frontend>>

(* ---------------- CacheService.getOrCompute ---------------- *)

\* a caller's getOrCompute call: none in flight, or suspended at "await computeFn()"
IdleCall == [pc |-> "idle", key |-> NoKey, ttl |-> 0, invocations |-> 0]

\* what the getOrCompute step just taken did; NoRet after any other step
NoRet == [phase |-> "none", c |-> 0, key |-> NoKey,
          invocations |-> 0, computed |-> Undefined, result |-> Undefined,
          pairDone |-> FALSE, pairInvocations |-> 0, pairWrote |-> Undefined]

\* no searchAndAggregate call has returned since the cache was last cleared
NoPrev == [valid |-> FALSE]

NoPair == [key |-> NoKey, open |-> {}, intact |-> FALSE,
           invocations |-> 0, wrote |-> Undefined]

\* a cache whose calls of the store are not guarded: the store's outcome as if it never threw
TryStoreUnguarded(s, outcome, fallback) == outcome

\* the try/catch of get and of set around the call of the store: the call's outcome, or,
\* when the store throws, what the catch leaves (undefined for get, nothing done for set)
TryStore(s, outcome, fallback) == IF s = "down" THEN fallback ELSE outcome

\* a lookup that never reports a hit
IsCachedNever(cached) == FALSE

\* "cached !== undefined"
IsCached(cached) == cached # Undefined

\* a store that keeps the value already under the key
StoreComputedIfAbsent(c, key, computed, ttlSeconds, t) ==
    IF CacheGet(c, key, t) = Undefined THEN CacheSet(c, key, computed, ttlSeconds, t) ELSE c

\* a store that forgets to write
StoreComputedSkipped(c, key, computed, ttlSeconds, t) == c

\* "this.set(cacheKey, computed, ttlSeconds)" after the await
StoreComputed(c, key, computed, ttlSeconds, t) ==
    CacheSet(c, key, computed, ttlSeconds, t)

\* a getOrCompute that stores null under the key when computeFn rejects
CacheAfterRejectNull(c, key, ttlSeconds, t) == CacheSet(c, key, Null, ttlSeconds, t)

\* the cache after computeFn rejected: the await throws before "this.set" is reached
CacheAfterReject(c, key, ttlSeconds, t) == c

\* the pair once something else has written, cleared or outlived its key
PairBroken == IF pair = NoPair THEN pair ELSE [pair EXCEPT !.intact = FALSE]

\* the pair after the call of caller c on key has settled; wrote is what it stored
PairAfterSettle(c, key, wrote) ==
    IF key # pair.key THEN pair
    ELSE IF c \notin pair.open
         THEN (IF wrote = Undefined THEN pair ELSE PairBroken)
         ELSE IF pair.open = {c} THEN NoPair
         ELSE [pair EXCEPT !.open = @ \ {c},
                           !.wrote = IF wrote = Undefined THEN @ ELSE wrote]

\* the pair's verdict, when the call of caller c on key is the second of it to settle
PairVerdict(c, key, wrote) ==
    IF key = pair.key /\ pair.open = {c} /\ pair.intact
    THEN [done |-> TRUE, invocations |-> pair.invocations,
          wrote |-> IF wrote = Undefined THEN pair.wrote ELSE wrote]
    ELSE [done |-> FALSE, invocations |-> 0, wrote |-> Undefined]

\* the first part of getOrCompute, up to its await: the lookup, and on a miss
\* the call of computeFn
GetOrComputeStart(c, key, ttlSeconds) ==
    LET cached == TryStore(store, CacheGet(cache, key, now), Undefined)
        hit == IsCached(cached)
        count == IF hit THEN 0 ELSE 1
    IN  /\ goc[c].pc = "idle"
        /\ cache' = TryStore(store, CacheAfterGet(cache, key, now), cache)
        /\ goc' = [goc EXCEPT ![c] =
                      IF hit THEN IdleCall
                      ELSE [pc |-> "computing", key |-> key, ttl |-> ttlSeconds,
                            invocations |-> count]]
        /\ ret' = [NoRet EXCEPT !.phase = IF hit THEN "hit" ELSE "suspended",
                                !.c = c, !.key = key,
                                !.invocations = count,
                                !.result = IF hit THEN cached ELSE Undefined]
        /\ pair' = IF /\ ~hit
                      /\ ret.phase = "suspended"
                      /\ ret.key = key
                      /\ pair = NoPair
                   THEN [key |-> key, open |-> {ret.c, c},
                         intact |-> TRUE, invocations |-> ret.invocations + count,
                         wrote |-> Undefined]
                   ELSE pair
        /\ UNCHANGED <<now, rateLimitTracker, rl, admitted, win, search, prev, lastSet, pure, store, frontend>>

\* computeFn's promise resolves with value: the result is stored and returned
GetOrComputeResolve(c, value) ==
    LET verdict == PairVerdict(c, goc[c].key, TryStore(store, value, Undefined))
    IN  /\ goc[c].pc = "computing"
        /\ cache' = TryStore(store, StoreComputed(cache, goc[c].key, value, goc[c].ttl, now),
                             cache)
        /\ goc' = [goc EXCEPT ![c] = IdleCall]
        /\ ret' = [NoRet EXCEPT !.phase = "resolved", !.c = c, !.key = goc[c].key,
                                !.invocations = goc[c].invocations,
                                !.computed = value, !.result = value,
                                !.pairDone = verdict.done,
                                !.pairInvocations = verdict.invocations,
                                !.pairWrote = verdict.wrote]
        /\ pair' = PairAfterSettle(c, goc[c].key, TryStore(store, value, Undefined))
        /\ lastSet' = TryStore(store,
                               [lastSet EXCEPT ![goc[c].key] = WriteOf(value, goc[c].ttl, now)],
                               lastSet)
        /\ UNCHANGED <<now, rateLimitTracker, rl, admitted, win, search, prev, pure, store, frontend>>

\* computeFn's promise rejects: the rejection passes through the await, nothing is stored
GetOrComputeReject(c) ==
    LET verdict == PairVerdict(c, goc[c].key, Undefined)
    IN  /\ goc[c].pc = "computing"
        /\ goc' = [goc EXCEPT ![c] = IdleCall]
        /\ ret' = [NoRet EXCEPT !.phase = "rejected", !.c = c, !.key = goc[c].key,
                                !.invocations = goc[c].invocations,
                                !.pairDone = verdict.done,
                                !.pairInvocations = verdict.invocations,
                                !.pairWrote = verdict.wrote]
        /\ pair' = PairAfterSettle(c, goc[c].key, Undefined)
        /\ cache' = CacheAfterReject(cache, goc[c].key, goc[c].ttl, now)
        /\ UNCHANGED <<now, rateLimitTracker, rl, admitted, win, search, prev, lastSet,
                       pure, store, frontend>>

\* CacheService.get called on its own
Get(key) ==
    /\ cache' = TryStore(store, CacheAfterGet(cache, key, now), cache)
    /\ ret' = [phase |-> "get", key |-> key,
               result |-> TryStore(store, CacheGet(cache, key, now), Undefined),
               pairDone |-> FALSE]
    /\ UNCHANGED <<now, rateLimitTracker, rl, admitted, win, goc, pair, search, prev, lastSet,
                   pure, store, frontend>>

\* a plain CacheService.set; replaced tells that the key held an unexpired entry with
\* another value or another expiry time
Set(key, value, ttlSeconds) ==
    /\ cache' = TryStore(store, CacheSet(cache, key, value, ttlSeconds, now), cache)
    /\ ret' = [phase |-> "set", key |-> key,
               pairDone |-> FALSE,
               replaced |-> /\ cache[key] # NoEntry
                            /\ ~Expired(cache[key], now)
                            /\ cache[key].v # value
                            /\ cache[key].t # cache'[key].t]
    /\ pair' = IF key = pair.key THEN PairBroken ELSE pair
    /\ lastSet' = TryStore(store, [lastSet EXCEPT ![key] = WriteOf(value, ttlSeconds, now)],
                           lastSet)
    /\ UNCHANGED <<now, rateLimitTracker, rl, admitted, win, goc, search, prev, pure, store, frontend>>

\* CacheService.clear
Clear ==
    /\ cache' = CacheClear(cache)
    /\ ret' = [phase |-> "cleared", pairDone |-> FALSE,
               held |-> {k \in DOMAIN cache : cache[k] # NoEntry}]
    /\ pair' = PairBroken
    /\ prev' = NoPrev
    /\ lastSet' = [k \in Keys |-> NoWrite]
    /\ UNCHANGED <<now, rateLimitTracker, rl, admitted, win, goc, search, pure, store, frontend>>

\* time passes; an entry of the pair's key that runs out ends the pair
TickCache ==
    /\ now < MaxCacheTicks * CacheTickMs
    /\ now' = now + CacheTickMs
    /\ ret' = NoRet
    /\ pair' = IF /\ pair.key \in Keys
                  /\ cache[pair.key] # NoEntry
                  /\ Expired(cache[pair.key], now')
               THEN PairBroken ELSE pair
    /\ UNCHANGED <<cache, rateLimitTracker, rl, admitted, win, goc, search, prev, lastSet, pure, store, frontend>>

\* the backing store starts to throw on every call, or stops
StoreTurns ==
    /\ store' = IF store = "up" THEN "down" ELSE "up"
    /\ ret' = NoRet
    /\ UNCHANGED <<now, cache, rateLimitTracker, rl, admitted, win, goc, pair, search, prev,
                   lastSet, pure, frontend>>

(* ---------------- text: strings as sequences of characters ---------------- *)

UpperCase == <<"A", "B", "C", "D", "E", "F", "G", "H", "I", "J", "K", "L", "M", "N", "O",
             "P", "Q", "R", "S", "T", "U", "V", "W", "X", "Y", "Z">>

LowerCase == <<"a", "b", "c", "d", "e", "f", "g", "h", "i", "j", "k", "l", "m", "n", "o",
             "p", "q", "r", "s", "t", "u", "v", "w", "x", "y", "z">>

Digits == {"0", "1", "2", "3", "4", "5", "6", "7", "8", "9"}

Range(s) == {s[i] : i \in DOMAIN s}

IsUpper(c) == c \in Range(UpperCase)

IsLower(c) == c \in Range(LowerCase)

\* the least of a set of positions, 0 for the empty set
FirstOf(positions) ==
    IF positions = {} THEN 0
    ELSE CHOOSE p \in positions : \A q \in positions : p <= q

\* [A-Za-z], which is what [A-Z] and [a-z] both match under the i flag
IsLetter(c) == IsUpper(c) \/ IsLower(c)

\* \w
IsWordChar(c) == IsLetter(c) \/ c \in Digits \/ c = "_"

\* \s
IsSpace(c) == c \in {" ", "\t", "\n", "\r"}

LowerChar(c) ==
    IF IsUpper(c) THEN LowerCase[CHOOSE i \in DOMAIN UpperCase : UpperCase[i] = c] ELSE c

\* String.prototype.toLowerCase
toLowerCase(s) == [i \in 1..Len(s) |-> LowerChar(s[i])]

\* the first position >= p that holds no whitespace, Len(s)+1 if none
SkipSpaces(s, p) ==
    IF p > Len(s) THEN p
    ELSE CHOOSE q \in p..Len(s) + 1 :
             /\ q > Len(s) \/ ~IsSpace(s[q])
             /\ \A k \in p..q - 1 : IsSpace(s[k])

\* the first position >= p that holds no letter
SkipLetters(s, p) ==
    IF p > Len(s) THEN p
    ELSE CHOOSE q \in p..Len(s) + 1 :
             /\ q > Len(s) \/ ~IsLetter(s[q])
             /\ \A k \in p..q - 1 : IsLetter(s[k])

\* the first position >= p that holds no lower-case letter
SkipLower(s, p) ==
    IF p > Len(s) THEN p
    ELSE CHOOSE q \in p..Len(s) + 1 :
             /\ q > Len(s) \/ ~IsLower(s[q])
             /\ \A k \in p..q - 1 : IsLower(s[k])

\* String.prototype.trim
RECURSIVE TrimLeft(_)
TrimLeft(s) == IF s # <<>> /\ IsSpace(Head(s)) THEN TrimLeft(Tail(s)) ELSE s

RECURSIVE TrimRight(_)
TrimRight(s) ==
    IF s # <<>> /\ IsSpace(s[Len(s)]) THEN TrimRight(SubSeq(s, 1, Len(s) - 1)) ELSE s

trim(s) == TrimRight(TrimLeft(s))

\* pat occurs in s at position i
OccursAt(s, i, pat) ==
    /\ i + Len(pat) - 1 <= Len(s)
    /\ \A k \in 1..Len(pat) : s[i + k - 1] = pat[k]

\* String.prototype.includes
includes(s, pat) == \E i \in 1..Len(s) + 1 : OccursAt(s, i, pat)

\* String.prototype.indexOf, as a position from 1; 0 when pat does not occur
indexOf(s, pat) ==
    IF includes(s, pat)
    THEN CHOOSE i \in 1..Len(s) + 1 :
             OccursAt(s, i, pat) /\ \A j \in 1..i - 1 : ~OccursAt(s, j, pat)
    ELSE 0

\* text.substring(Math.max(0, index - 50), Math.min(text.length, index + 50)),
\* index being the position from 1 of the match
Snippet(text, index) ==
    SubSeq(text,
           (IF index - 1 - 50 > 0 THEN index - 1 - 50 ELSE 0) + 1,
           IF index - 1 + 50 < Len(text) THEN index - 1 + 50 ELSE Len(text))

\* Array.prototype.join(' ') of strings
RECURSIVE JoinSpace(_)
JoinSpace(parts) ==
    IF parts = <<>> THEN <<>>
    ELSE IF Len(parts) = 1 THEN parts[1]
    ELSE parts[1] \o <<" ">> \o JoinSpace(Tail(parts))

(* ---------------- extractRestaurantMentions ---------------- *)

restaurantKeywords == <<
    <<"r", "e", "s", "t", "a", "u", "r", "a", "n", "t">>,
    <<"c", "a", "f", "e">>,
    <<"c", "a", "f", "e">>,
    <<"d", "i", "n", "e", "r">>,
    <<"b", "i", "s", "t", "r", "o">>,
    <<"p", "i", "z", "z", "e", "r", "i", "a">>,
    <<"s", "u", "s", "h", "i">>,
    <<"b", "u", "r", "g", "e", "r">>,
    <<"s", "t", "e", "a", "k", "h", "o", "u", "s", "e">>,
    <<"k", "i", "t", "c", "h", "e", "n">>,
    <<"g", "r", "i", "l", "l">>,
    <<"b", "a", "r", " ", "a", "n", "d", " ", "g", "r", "i", "l", "l">>,
    <<"b", "b", "q">>,
    <<"b", "a", "r", "b", "e", "c", "u", "e">>,
    <<"t", "a", "c", "o">>,
    <<"n", "o", "o", "d", "l", "e", "s">>,
    <<"r", "a", "m", "e", "n">>,
    <<"p", "h", "o">>,
    <<"b", "a", "k", "e", "r", "y">>,
    <<"c", "o", "f", "f", "e", "e">>,
    <<"b", "u", "r", "g", "e", "r", " ", "j", "o", "i", "n", "t">>,
    <<"f", "o", "o", "d", " ", "t", "r", "u", "c", "k">> >>

CalledWord == <<"c", "a", "l", "l", "e", "d">>

NoMatch == [ok |-> FALSE, index |-> 0, group |-> <<>>, end |-> 0]

\* the first position > i that holds the character c, 0 if none does
NextOf(text, i, c) ==
    IF \E j \in i + 1..Len(text) : text[j] = c
    THEN CHOOSE j \in i + 1..Len(text) : text[j] = c /\ \A k \in i + 1..j - 1 : text[k] # c
    ELSE 0

\* a quote at i that closes at j, at least one character in between
QuotedBetween(text, i, j) ==
    IF j <= i + 1 THEN NoMatch
    ELSE [ok |-> TRUE, index |-> i, group |-> SubSeq(text, i + 1, j - 1), end |-> j]

\* quotedPattern /"([^"]+)"|'([^']+)'/ tried at position i
QuotedAt(text, i) ==
    IF text[i] \in {"\"", "'"} THEN QuotedBetween(text, i, NextOf(text, i, text[i]))
    ELSE NoMatch

\* the successive matches regex.exec finds from position i on (the g flag)
RECURSIVE QuotedMatches(_, _)
QuotedMatches(text, i) ==
    LET Found(m) == <<m>> \o QuotedMatches(text, m.end + 1)
        From(j) == IF j = 0 THEN <<>> ELSE Found(QuotedAt(text, j))
    IN  From(FirstOf({j \in i..Len(text) : QuotedAt(text, j).ok}))

\* pat, given in lower case, occurs in s at position i, letter case ignored (the i flag)
OccursAtIgnoreCase(s, i, pat) ==
    /\ i + Len(pat) - 1 <= Len(s)
    /\ \A k \in 1..Len(pat) : LowerChar(s[i + k - 1]) = pat[k]

\* a word from p to before e, of two letters at least: e, or 0 for none
WordOfTwo(p, e) == IF e >= p + 2 THEN e ELSE 0

\* [A-Z][a-z]+ under the i flag at position p: the position after the word, 0 if none
WordStopIgnoreCase(text, p) == WordOfTwo(p, SkipLetters(text, p))

\* (?:\s+[A-Z][a-z]+)* under the i flag, from the position e after a word
RECURSIVE MoreWordsIgnoreCase(_, _)
MoreWordsIgnoreCase(text, e) ==
    LET Next(e2) == IF e2 = 0 THEN e ELSE MoreWordsIgnoreCase(text, e2)
        After(q) == Next(IF q > e THEN WordStopIgnoreCase(text, q) ELSE 0)
    IN  After(SkipSpaces(text, e))

\* the name from start to before e, and the closing quote if one follows
NameUpTo(text, start, e) ==
    [ok |-> TRUE, index |-> start, group |-> SubSeq(text, start, e - 1),
     end |-> IF e <= Len(text) /\ text[e] = "\"" THEN e ELSE e - 1]

\* ([A-Z][a-z]+(?:\s+[A-Z][a-z]+)*)"? under the i flag at position start
NameAt(text, start) ==
    LET First(e1) == IF e1 = 0 THEN NoMatch
                     ELSE NameUpTo(text, start, MoreWordsIgnoreCase(text, e1))
    IN  First(WordStopIgnoreCase(text, start))

\* "?([A-Z][a-z]+(?:\s+[A-Z][a-z]+)*)"? under the i flag at position p
QuotedNameAt(text, p) ==
    NameAt(text, IF p <= Len(text) /\ text[p] = "\"" THEN p + 1 ELSE p)

\* (?:called\s+)?"?(name)"? at position q: with the word if the rest matches then, else
\* without it
CalledNameAt(text, q) ==
    LET Either(withCalled, without) == IF withCalled.ok THEN withCalled ELSE without
        Called(q2) == IF OccursAtIgnoreCase(text, q, CalledWord) /\ q2 > q + Len(CalledWord)
                      THEN QuotedNameAt(text, q2) ELSE NoMatch
    IN  Either(Called(SkipSpaces(text, q + Len(CalledWord))), QuotedNameAt(text, q))

\* what follows the keyword: \s+(?:called\s+)?"?(name)"?, from the position p after it
AfterKeyword(text, p) ==
    LET Spaced(q) == IF q = p THEN NoMatch ELSE CalledNameAt(text, q)
    IN  Spaced(SkipSpaces(text, p))

\* the keyword alternatives, tried in order at position i
RECURSIVE KeywordAltAt(_, _, _)
KeywordAltAt(text, i, keywords) ==
    LET Found(m) == IF m.ok THEN [m EXCEPT !.index = i]
                    ELSE KeywordAltAt(text, i, Tail(keywords))
        Alt(keyword) == Found(IF OccursAtIgnoreCase(text, i, keyword)
                              THEN AfterKeyword(text, i + Len(keyword))
                              ELSE NoMatch)
    IN  IF keywords = <<>> THEN NoMatch ELSE Alt(Head(keywords))

\* keywordPattern tried at position i
KeywordAt(text, i) == KeywordAltAt(text, i, restaurantKeywords)

RECURSIVE KeywordMatches(_, _)
KeywordMatches(text, i) ==
    LET Found(m) == <<m>> \o KeywordMatches(text, m.end + 1)
        From(j) == IF j = 0 THEN <<>> ELSE Found(KeywordAt(text, j))
    IN  From(FirstOf({j \in i..Len(text) : KeywordAt(text, j).ok}))

\* \b between positions p - 1 and p
WordBoundary(text, p) ==
    (p > 1 /\ IsWordChar(text[p - 1])) # (p <= Len(text) /\ IsWordChar(text[p]))

\* [A-Z][a-z]+ at position p, case observed: the position after the word, 0 if none
WordStop(text, p) ==
    IF p <= Len(text) /\ IsUpper(text[p]) THEN WordOfTwo(p, SkipLower(text, p + 1)) ELSE 0

\* the longest run of further capitalized words that ends at a word boundary
RECURSIVE MoreWords(_, _)
MoreWords(text, e) ==
    LET Longest(rest) == IF rest # 0 THEN rest
                         ELSE IF WordBoundary(text, e) THEN e
                         ELSE 0
        Next(e2) == Longest(IF e2 = 0 THEN 0 ELSE MoreWords(text, e2))
        After(q) == Next(IF q > e THEN WordStop(text, q) ELSE 0)
    IN  After(SkipSpaces(text, e))

\* capitalizedNamePattern /\b([A-Z][a-z]+(?:\s+[A-Z][a-z]+)*)\b/ tried at position i
CapitalizedAt(text, i) ==
    LET Name(e) == IF e = 0 THEN NoMatch
                   ELSE [ok |-> TRUE, index |-> i, group |-> SubSeq(text, i, e - 1),
                         end |-> e - 1]
        First(e1) == Name(IF e1 = 0 THEN 0 ELSE MoreWords(text, e1))
    IN  First(IF WordBoundary(text, i) THEN WordStop(text, i) ELSE 0)

RECURSIVE CapitalizedMatches(_, _)
CapitalizedMatches(text, i) ==
    LET Found(m) == <<m>> \o CapitalizedMatches(text, m.end + 1)
        From(j) == IF j = 0 THEN <<>> ELSE Found(CapitalizedAt(text, j))
    IN  From(FirstOf({j \in i..Len(text) : CapitalizedAt(text, j).ok}))

\* the position in the Map of the entry with this key, 0 if it has none
MentionIndex(mentions, key) ==
    IF \E i \in DOMAIN mentions : mentions[i].key = key
    THEN CHOOSE i \in DOMAIN mentions : mentions[i].key = key
    ELSE 0

NewMention(key, name, sourceType, sourceId, snippet) ==
    [key |-> key, name |-> name, source |-> sourceType, sourceId |-> sourceId,
     text |-> snippet, mentions |-> 1]

\* the same without the test of the name's length
CountMentionAnyLength(mentions, name, sourceType, sourceId, text, index) ==
    LET At(key, i) ==
            IF i = 0
            THEN Append(mentions,
                        NewMention(key, name, sourceType, sourceId, Snippet(text, index)))
            ELSE [mentions EXCEPT ![i].mentions = @ + 1]
    IN  At(toLowerCase(name), MentionIndex(mentions, toLowerCase(name)))

\* a name of the quoted or the keyword pass: a new Map entry, or one more mention
CountMention(mentions, name, sourceType, sourceId, text, index) ==
    LET At(key, i) ==
            IF i = 0
            THEN Append(mentions,
                        NewMention(key, name, sourceType, sourceId, Snippet(text, index)))
            ELSE [mentions EXCEPT ![i].mentions = @ + 1]
        Keyed(key) == At(key, MentionIndex(mentions, key))
    IN  IF Len(name) > 2 /\ Len(name) < 100 THEN Keyed(toLowerCase(name)) ELSE mentions

\* the while loop over regex.exec of the quoted and the keyword pass
RECURSIVE CountMatches(_, _, _, _, _)
CountMatches(mentions, matches, sourceType, sourceId, text) ==
    LET Counted(match) == CountMention(mentions, trim(match.group), sourceType, sourceId,
                                       text, match.index)
    IN  IF matches = <<>> THEN mentions
        ELSE CountMatches(Counted(Head(matches)), Tail(matches), sourceType, sourceId, text)

\* the same, counting one more mention for a key the Map holds
AddPotentialNameCounting(mentions, name, sourceType, sourceId, text) ==
    LET Keyed(key) == CountMention(mentions, name, sourceType, sourceId, text,
                                   indexOf(text, name))
    IN  IF Len(name) > 3 /\ Len(name) < 100 /\ toLowerCase(name) \notin Range(restaurantKeywords)
        THEN Keyed(toLowerCase(name)) ELSE mentions

\* a name of the capitalized pass: a new Map entry only, never one more mention
AddPotentialName(mentions, name, sourceType, sourceId, text) ==
    LET Keyed(key) ==
            IF key \notin Range(restaurantKeywords) /\ MentionIndex(mentions, key) = 0
            THEN Append(mentions, NewMention(key, name, sourceType, sourceId,
                                             Snippet(text, indexOf(text, name))))
            ELSE mentions
    IN  IF Len(name) > 3 /\ Len(name) < 100 THEN Keyed(toLowerCase(name)) ELSE mentions

RECURSIVE AddPotentialNames(_, _, _, _, _)
AddPotentialNames(mentions, matches, sourceType, sourceId, text) ==
    IF matches = <<>> THEN mentions
    ELSE AddPotentialNames(AddPotentialName(mentions, Head(matches).group, sourceType,
                                            sourceId, text),
                           Tail(matches), sourceType, sourceId, text)

\* the text, lower-cased, includes "restaurant", "food" or "eat"
InRestaurantContext(text) ==
    \E w \in {<<"r", "e", "s", "t", "a", "u", "r", "a", "n", "t">>, <<"f", "o", "o", "d">>, <<"e", "a", "t">>} :
        includes(toLowerCase(text), w)

\* the entries of the mentions Map, in insertion order: the quoted pass and the keyword pass
\* run the same loop body, one over its matches after the other
extractRestaurantMentions(text, sourceType, sourceId) ==
    LET Third(counted) ==
            IF InRestaurantContext(text)
            THEN AddPotentialNames(counted, CapitalizedMatches(text, 1), sourceType,
                                   sourceId, text)
            ELSE counted
    IN  IF Len(text) = 0 THEN <<>>
        ELSE Third(CountMatches(<<>>, QuotedMatches(text, 1) \o KeywordMatches(text, 1),
                                sourceType, sourceId, text))

\* the texts in the order they are gone through: title and body of each post, then the
\* body of each comment
RECURSIVE PostDocuments(_)
PostDocuments(posts) ==
    IF posts = <<>> THEN <<>>
    ELSE <<[text |-> Head(posts).title, source |-> "post_title", id |-> Head(posts).id],
           [text |-> Head(posts).selftext, source |-> "post_body", id |-> Head(posts).id]>>
         \o PostDocuments(Tail(posts))

CommentDocuments(comments) ==
    [i \in DOMAIN comments |->
        [text |-> comments[i].body, source |-> "comment", id |-> comments[i].id]]

RECURSIVE MentionsOfDocuments(_)
MentionsOfDocuments(documents) ==
    IF documents = <<>> THEN <<>>
    ELSE extractRestaurantMentions(Head(documents).text, Head(documents).source,
                                   Head(documents).id)
         \o MentionsOfDocuments(Tail(documents))

extractRestaurantMentionsFromPosts(posts, comments) ==
    MentionsOfDocuments(PostDocuments(posts) \o CommentDocuments(comments))

\* a test that never finds the id
IncludesIdNever(sources, id) == FALSE

\* String holds one of the sourceIds already
IncludesId(sources, id) == \E i \in DOMAIN sources : sources[i] = id

\* a merge that takes the name of the latest mention
AggregateMentionLastName(aggregated, mention) ==
    LET At(key, i) ==
            IF i # 0
            THEN [aggregated EXCEPT
                     ![i].name = mention.name,
                     ![i].count = @ + mention.mentions,
                     ![i].sources = IF IncludesId(@, mention.sourceId) THEN @
                                    ELSE Append(@, mention.sourceId)]
            ELSE Append(aggregated, [key |-> key, name |-> mention.name,
                                     count |-> mention.mentions,
                                     sources |-> <<mention.sourceId>>])
        Keyed(key) == At(key, MentionIndex(aggregated, key))
    IN  Keyed(toLowerCase(mention.name))

\* a merge that counts every mention record as one
AggregateMentionCountsRecords(aggregated, mention) ==
    LET At(key, i) ==
            IF i # 0
            THEN [aggregated EXCEPT
                     ![i].count = @ + 1,
                     ![i].sources = IF IncludesId(@, mention.sourceId) THEN @
                                    ELSE Append(@, mention.sourceId)]
            ELSE Append(aggregated, [key |-> key, name |-> mention.name,
                                     count |-> mention.mentions,
                                     sources |-> <<mention.sourceId>>])
        Keyed(key) == At(key, MentionIndex(aggregated, key))
    IN  Keyed(toLowerCase(mention.name))

\* one mention merged into the entries of the aggregated Map
AggregateMention(aggregated, mention) ==
    LET At(key, i) ==
            IF i # 0
            THEN [aggregated EXCEPT
                     ![i].count = @ + mention.mentions,
                     ![i].sources = IF IncludesId(@, mention.sourceId) THEN @
                                    ELSE Append(@, mention.sourceId)]
            ELSE Append(aggregated, [key |-> key, name |-> mention.name,
                                     count |-> mention.mentions,
                                     sources |-> <<mention.sourceId>>])
        Keyed(key) == At(key, MentionIndex(aggregated, key))
    IN  Keyed(toLowerCase(mention.name))

\* the entries of the aggregated Map, in insertion order
RECURSIVE AggregateInto(_, _)
AggregateInto(aggregated, mentions) ==
    IF mentions = <<>> THEN aggregated
    ELSE AggregateInto(AggregateMention(aggregated, Head(mentions)), Tail(mentions))

aggregateRestaurantMentions(mentions) == AggregateInto(<<>>, mentions)

(* ---------------- analyzeSentiment: the lexicon scorer ---------------- *)

\* the characters the scorer's tokenizer replaces by a space
TokenPunctuation ==
    {".", ",", "/", "#", "!", "?", "$", "%", "^", "&", "*", ";", ":", "{", "}", "=", "_",
     "\"", "~", "(", ")"}

IsTokenSeparator(c) == IsSpace(c) \/ c \in TokenPunctuation

\* the first position >= p that holds a separator
RECURSIVE SkipToken(_, _)
SkipToken(s, p) == IF p > Len(s) \/ IsTokenSeparator(s[p]) THEN p ELSE SkipToken(s, p + 1)

\* the lower-cased words of the text from position p on
RECURSIVE TokensFrom(_, _)
TokensFrom(s, p) ==
    LET Token(e) == <<toLowerCase(SubSeq(s, p, e - 1))>> \o TokensFrom(s, e)
    IN  IF p > Len(s) THEN <<>>
        ELSE IF IsTokenSeparator(s[p]) THEN TokensFrom(s, p + 1)
        ELSE Token(SkipToken(s, p))

Tokens(text) == TokensFrom(text, 1)

\* the rated words of the vocabulary that the model's texts use
Lexicon ==
    {[word |-> <<"g", "r", "e", "a", "t">>, score |-> 3], [word |-> <<"l", "o", "v", "e">>, score |-> 3],
     [word |-> <<"b", "e", "s", "t">>, score |-> 3], [word |-> <<"g", "o", "o", "d">>, score |-> 3],
     [word |-> <<"b", "a", "d">>, score |-> -3], [word |-> <<"a", "w", "f", "u", "l">>, score |-> -3],
     [word |-> <<"l", "i", "k", "e">>, score |-> 2]}

WordScore(word) ==
    IF \E e \in Lexicon : e.word = word
    THEN (CHOOSE e \in Lexicon : e.word = word).score
    ELSE 0

\* a rated word right after a negator (not, never) counts with its sign turned
TokenScore(tokens, i) ==
    IF i > 1 /\ tokens[i - 1] \in {<<"n", "o", "t">>, <<"n", "e", "v", "e", "r">>} THEN 0 - WordScore(tokens[i])
    ELSE WordScore(tokens[i])

RECURSIVE SumTokenScores(_, _)
SumTokenScores(tokens, i) ==
    IF i > Len(tokens) THEN 0 ELSE TokenScore(tokens, i) + SumTokenScores(tokens, i + 1)

\* a text on which sentimentAnalyzer.analyze throws
Unscorable == <<"\\u0000">>

\* the same with the error of the scorer let through
analyzeSentimentUncaught(text) ==
    IF text = Unscorable THEN [threw |-> TRUE, score |-> 0, words |-> 1, label |-> "neutral"]
    ELSE [score |-> SumTokenScores(Tokens(text), 1),
          words |-> IF Tokens(text) = <<>> THEN 1 ELSE Len(Tokens(text)),
          label |-> "neutral"]

\* analyzeSentiment: score, and comparative = score / words as the fraction score over
\* words; a text without a word still splits into one, empty, token; the neutral zero result
\* when the scorer throws
analyzeSentiment(text) ==
    LET Result(score, words) ==
            [score |-> score, words |-> words,
             label |-> IF 10 * score > words THEN "positive"
                       ELSE IF 10 * score < 0 - words THEN "negative"
                       ELSE "neutral"]
        Scored(tokens) ==
            Result(SumTokenScores(tokens, 1), IF tokens = <<>> THEN 1 ELSE Len(tokens))
    IN  IF text = Unscorable THEN Result(0, 1) ELSE Scored(Tokens(text))

(* ---------------- searchReddit ---------------- *)

\* the same with what was collected lost when a subreddit's request fails
SearchSubredditForgetful(found, subreddit, reply) ==
    LET Of(kind, Item(_)) ==
            [i \in DOMAIN SelectSeq(reply.children, LAMBDA child : child.kind = kind) |->
                Item(SelectSeq(reply.children, LAMBDA child : child.kind = kind)[i])]
        Post(child) == [id |-> child.id, title |-> child.title, selftext |-> child.selftext]
        Comment(child) == [id |-> child.id, body |-> child.body]
    IN  IF reply.kind = "failed"
        THEN [posts |-> <<>>, comments |-> <<>>,
              requested |-> Append(found.requested, subreddit)]
        ELSE [posts |-> found.posts \o Of("t3", Post),
              comments |-> found.comments \o Of("t1", Comment),
              requested |-> Append(found.requested, subreddit)]

\* one iteration of the loop over the subreddits: the request, and the children of its
\* listing pushed by kind; a request that fails is caught and logged, nothing is pushed.
\* requested is the order of the requests made
SearchSubreddit(found, subreddit, reply) ==
    LET Posts(children) ==
            [i \in DOMAIN children |->
                [id |-> children[i].id, title |-> children[i].title,
                 selftext |-> children[i].selftext]]
        Comments(children) ==
            [i \in DOMAIN children |-> [id |-> children[i].id, body |-> children[i].body]]
        Pushed(children) ==
            [posts |-> found.posts
                       \o Posts(SelectSeq(children, LAMBDA child : child.kind = "t3")),
             comments |-> found.comments
                          \o Comments(SelectSeq(children, LAMBDA child : child.kind = "t1")),
             requested |-> Append(found.requested, subreddit)]
    IN  IF reply.kind = "failed" THEN [found EXCEPT !.requested = Append(@, subreddit)]
        ELSE Pushed(reply.children)

RECURSIVE SearchSubreddits(_, _, _)
SearchSubreddits(found, subreddits, replies) ==
    IF subreddits = <<>> THEN found
    ELSE SearchSubreddits(SearchSubreddit(found, Head(subreddits), Head(replies)),
                          Tail(subreddits), Tail(replies))

\* searchReddit: the token, then the subreddits one after the other; it throws when no token
\* is had. replies are the answers of the Reddit API, one for each subreddit
searchReddit(token, subreddits, replies) ==
    LET Returned(found) == [threw |-> FALSE, posts |-> found.posts,
                            comments |-> found.comments, requested |-> found.requested]
    IN  IF token = "failed"
        THEN [threw |-> TRUE, posts |-> <<>>, comments |-> <<>>, requested |-> <<>>]
        ELSE Returned(SearchSubreddits([posts |-> <<>>, comments |-> <<>>, requested |-> <<>>],
                                       subreddits, replies))

\* what the Reddit API answers for a subreddit: a failed request, a listing without
\* children, or a post, a comment and a child of another kind that name the subreddit
RedditReplies(subreddit) ==
    {[kind |-> "failed", children |-> <<>>],
     [kind |-> "listing", children |-> <<>>],
     [kind |-> "listing",
      children |-> <<[kind |-> "t3", id |-> <<"p">> \o subreddit, title |-> subreddit,
                      selftext |-> <<>>, body |-> <<>>],
                     [kind |-> "t5", id |-> <<"s">> \o subreddit, title |-> <<>>,
                      selftext |-> <<>>, body |-> <<>>],
                     [kind |-> "t1", id |-> <<"c">> \o subreddit, title |-> <<>>,
                      selftext |-> <<>>, body |-> subreddit]>>]}

(* ---------------- getTargetSubreddits ---------------- *)

\* the same without the Set: a name stays as often as it comes
getTargetSubredditsRepeating(city) ==
    LET Named(citySubreddit) ==
            SelectSeq(<<<<"f", "o", "o", "d">>,
                        <<"r", "e", "s", "t", "a", "u", "r", "a", "n", "t", "s">>,
                        <<"f", "o", "o", "d", "i", "t">>,
                        <<"e", "a", "t", "i", "n", "g", "o", "u", "t">>,
                        citySubreddit, citySubreddit \o <<"f", "o", "o", "d">>,
                        <<"A", "s", "k", "R", "e", "d", "d", "i", "t">>>>,
                      LAMBDA sub : Len(sub) > 0)
    IN  Named(SelectSeq(toLowerCase(city), LAMBDA c : ~IsSpace(c)))

\* the base subreddits, the two named after the city and AskReddit, each once, in this
\* order, the empty name left out
getTargetSubreddits(city) ==
    LET Listed(all, kept) ==
            [k \in 1..Cardinality(kept) |->
                all[CHOOSE i \in kept : Cardinality({j \in kept : j <= i}) = k]]
        Unique(all) ==
            Listed(all, {i \in DOMAIN all :
                            Len(all[i]) > 0 /\ \A j \in 1..i - 1 : all[j] # all[i]})
        Named(citySubreddit) ==
            Unique(<<<<"f", "o", "o", "d">>,
                     <<"r", "e", "s", "t", "a", "u", "r", "a", "n", "t", "s">>,
                     <<"f", "o", "o", "d", "i", "t">>,
                     <<"e", "a", "t", "i", "n", "g", "o", "u", "t">>,
                     citySubreddit, citySubreddit \o <<"f", "o", "o", "d">>,
                     <<"A", "s", "k", "R", "e", "d", "d", "i", "t">>>>)
    IN  Named(SelectSeq(toLowerCase(city), LAMBDA c : ~IsSpace(c)))

(* ---------------- analyzeRestaurantSentiment ---------------- *)

\* Math.round(n / d) for d > 0: halves go up
RoundDiv(n, d) == (2 * n + d) \div (2 * d)

RECURSIVE SumScores(_)
SumScores(sentiments) ==
    IF sentiments = <<>> THEN 0 ELSE Head(sentiments).score + SumScores(Tail(sentiments))

RECURSIVE ProductWords(_)
ProductWords(sentiments) ==
    IF sentiments = <<>> THEN 1 ELSE Head(sentiments).words * ProductWords(Tail(sentiments))

\* the sum of the comparatives, as a numerator over the denominator words
RECURSIVE SumComparatives(_, _)
SumComparatives(sentiments, words) ==
    IF sentiments = <<>> THEN 0
    ELSE Head(sentiments).score * (words \div Head(sentiments).words)
         + SumComparatives(Tail(sentiments), words)

\* the averages of n > 0 sentiments, the comparatives summing to num / words: the score in
\* hundredths and the comparative in ten-thousandths, as the two roundings leave them; the
\* label is taken from the average comparative before it is rounded
AverageSentiment(sumScore, num, words, n) ==
    [score |-> RoundDiv(100 * sumScore, n),
     comparative |-> RoundDiv(10000 * num, words * n),
     label |-> IF 10 * num > words * n THEN "positive"
               ELSE IF 10 * num < 0 - words * n THEN "negative"
               ELSE "neutral"]

\* the same without the filter: every text is scored
analyzeRestaurantSentimentUnfiltered(postText, comments) ==
    LET Over(sentiments, words) ==
            AverageSentiment(SumScores(sentiments), SumComparatives(sentiments, words),
                             words, Len(sentiments))
        Of(sentiments) == Over(sentiments, ProductWords(sentiments))
    IN  Of([i \in 1..Len(comments) + 1 |-> analyzeSentiment((<<postText>> \o comments)[i])])

analyzeRestaurantSentiment(postText, comments) ==
    LET Over(sentiments, words) ==
            AverageSentiment(SumScores(sentiments), SumComparatives(sentiments, words),
                             words, Len(sentiments))
        Of(sentiments) == Over(sentiments, ProductWords(sentiments))
        All(allText) ==
            IF Len(allText) = 0 THEN [score |-> 0, comparative |-> 0, label |-> "neutral"]
            ELSE Of([i \in 1..Len(allText) |-> analyzeSentiment(allText[i])])
    IN  All(SelectSeq(<<postText>> \o comments, LAMBDA text : Len(text) > 0))

(* ---------------- enrichRestaurantWithMapUrl ---------------- *)

\* a UTF-16 surrogate without its pair, one code unit of a string
LoneSurrogate == "\\uD800"

\* the escapes of the other ASCII characters
Escapes ==
    {[char |-> " ", escape |-> <<"%", "2", "0">>],
     [char |-> "\"", escape |-> <<"%", "2", "2">>],
     [char |-> "#", escape |-> <<"%", "2", "3">>],
     [char |-> "$", escape |-> <<"%", "2", "4">>],
     [char |-> "%", escape |-> <<"%", "2", "5">>],
     [char |-> "&", escape |-> <<"%", "2", "6">>],
     [char |-> "+", escape |-> <<"%", "2", "B">>],
     [char |-> ",", escape |-> <<"%", "2", "C">>],
     [char |-> "/", escape |-> <<"%", "2", "F">>],
     [char |-> ":", escape |-> <<"%", "3", "A">>],
     [char |-> ";", escape |-> <<"%", "3", "B">>],
     [char |-> "<", escape |-> <<"%", "3", "C">>],
     [char |-> "=", escape |-> <<"%", "3", "D">>],
     [char |-> ">", escape |-> <<"%", "3", "E">>],
     [char |-> "?", escape |-> <<"%", "3", "F">>],
     [char |-> "@", escape |-> <<"%", "4", "0">>],
     [char |-> "[", escape |-> <<"%", "5", "B">>],
     [char |-> "\\", escape |-> <<"%", "5", "C">>],
     [char |-> "]", escape |-> <<"%", "5", "D">>],
     [char |-> "^", escape |-> <<"%", "5", "E">>],
     [char |-> "{", escape |-> <<"%", "7", "B">>],
     [char |-> "|", escape |-> <<"%", "7", "C">>],
     [char |-> "}", escape |-> <<"%", "7", "D">>],
     [char |-> "\t", escape |-> <<"%", "0", "9">>],
     [char |-> "\n", escape |-> <<"%", "0", "A">>],
     [char |-> "\r", escape |-> <<"%", "0", "D">>]}

\* encodeURIComponent: throws a URIError on a lone surrogate
encodeURIComponent(s) ==
    LET Encode(c) == IF IsWordChar(c) \/ c \in {"-", ".", "!", "~", "*", "'", "(", ")"} THEN <<c>>
                     ELSE (CHOOSE e \in Escapes : e.char = c).escape
        Enc[i \in 0..Len(s)] == IF i = 0 THEN <<>> ELSE Enc[i - 1] \o Encode(s[i])
    IN  IF \E i \in DOMAIN s : s[i] = LoneSurrogate
        THEN [threw |-> TRUE, text |-> <<>>]
        ELSE [threw |-> FALSE, text |-> Enc[Len(s)]]

SearchUrlBase == <<"h", "t", "t", "p", "s", ":", "/", "/", "w", "w", "w", ".", "g", "o", "o", "g", "l", "e", ".", "c", "o", "m", "/", "m", "a", "p", "s", "/", "s", "e", "a", "r", "c", "h", "/">>

\* the restaurant name with a search URL built from the name alone
GenericPlaceDataOfName(restaurantName, city) ==
    [threw |-> encodeURIComponent(restaurantName).threw, name |-> restaurantName,
     url |-> SearchUrlBase \o encodeURIComponent(restaurantName).text]

\* the restaurant name with the generic search URL built from name and city
GenericPlaceData(restaurantName, city) ==
    LET Data(encoded) == [threw |-> encoded.threw, name |-> restaurantName,
                          url |-> SearchUrlBase \o encoded.text]
    IN  Data(encodeURIComponent(restaurantName \o <<" ">> \o city))

\* what the environment and the Places API answer in the search model: no API key
\* configured, a search without result, a request that fails
EnrichReplies ==
    {[kind |-> "nokey", name |-> <<>>, place_id |-> <<>>],
     [kind |-> "noresult", name |-> <<>>, place_id |-> <<>>],
     [kind |-> "failed", name |-> <<>>, place_id |-> <<>>]}

\* enrichRestaurantWithMapUrl: the place data, or threw when the URIError escapes; an error
\* in the try block, the encoding of the place name included, lands in its catch
enrichRestaurantWithMapUrl(restaurantName, city, reply) ==
    LET Place(encoded) ==
            IF reply.kind = "place" /\ ~encoded.threw
            THEN [threw |-> FALSE, name |-> reply.name,
                  url |-> SearchUrlBase \o <<"?", "a", "p", "i", "=", "1", "&", "q", "u", "e", "r", "y", "=">>
                          \o encoded.text
                          \o <<"&", "q", "u", "e", "r", "y", "_", "p", "l", "a", "c", "e", "_", "i", "d", "=">>
                          \o reply.place_id]
            ELSE GenericPlaceData(restaurantName, city)
    IN  Place(encodeURIComponent(reply.name))

(* ---------------- searchAndAggregate ---------------- *)

Cities == {<<"N", "Y">>, <<"n", "y">>}
Queries == {<<"p", "i", "z", "z", "a">>, <<"P", "i", "z", "z", "a">>}

\* the (city, query) of the calls made: the same search in two spellings
SearchArgs ==
    {<<<<"N", "Y">>, <<"p", "i", "z", "z", "a">>>>, <<<<"n", "y">>, <<"P", "i", "z", "z", "a">>>>}

\* a key that keeps the case of its arguments
cacheKeyCaseSensitive(city, query) ==
    <<"s", "e", "a", "r", "c", "h", ":">> \o city \o <<":">> \o query

\* `search:${city.toLowerCase()}:${query.toLowerCase()}`
cacheKey(city, query) ==
    <<"s", "e", "a", "r", "c", "h", ":">> \o toLowerCase(city) \o <<":">> \o toLowerCase(query)

\* the (city, query) of overlapping calls: two searches, each made by any of the callers
ConcurrentArgs ==
    {<<<<"N", "Y">>, <<"p", "i", "z", "z", "a">>>>, <<<<"N", "Y">>, <<"s", "u", "s", "h", "i">>>>}

CacheKeys ==
    Keys \cup {cacheKey(city, query) : city \in Cities, query \in Queries}
         \cup {cacheKey(args[1], args[2]) : args \in ConcurrentArgs}

\* what searchReddit resolves to: posts and comments
RedditResults ==
   <<[posts |-> <<[id |-> "p1", title |-> <<"\"", "L", "u", "i", "g", "i", "\"", " ", "w", "a", "s", " ", "b", "a", "d">>, selftext |-> <<>>]>>,
      comments |-> <<[id |-> "c1", body |-> <<"t", "r", "y", " ", "\"", "M", "a">> \o <<LoneSurrogate>> \o <<"x", "\"">>],
                     [id |-> "c2", body |-> <<"\"", "M", "a", "r", "i", "o", "\"", " ", "a", "n", "d", " ", "\"", "m", "a", "r", "i", "o", "\"">>],
                     [id |-> "c3", body |-> <<"g", "r", "e", "a", "t", " ", "\"", "N", "o", "n", "n", "a", "\"">>]>>],
     [posts |-> <<[id |-> "p2", title |-> <<"e", "a", "t", " ", "a", "t", " ", "r", "e", "s", "t", "a", "u", "r", "a", "n", "t", " ", "c", "a", "l", "l", "e", "d", " ", "T", "a", "c", "o", " ", "B", "e", "l", "l">>,
                   selftext |-> <<"n", "o", "t", " ", "b", "a", "d">>],
                  [id |-> "p3", title |-> <<"\"", "T", "a", "c", "o", " ", "B", "e", "l", "l", "\"", " ", "i", "s", " ", "g", "r", "e", "a", "t">>,
                   selftext |-> <<"\"", "T", "a", "c", "o", " ", "B", "e", "l", "l", "\"">>]>>,
      comments |-> <<>>]>>

\* the aggregated establishments of each of them, in the Map's insertion order
AggregatedMentions ==
    [r \in DOMAIN RedditResults |->
        aggregateRestaurantMentions(
            extractRestaurantMentionsFromPosts(RedditResults[r].posts,
                                               RedditResults[r].comments))]

\* the texts of the documents an establishment was found in; this one takes the first post's
PostTextOfFirst(redditResults, sources) ==
    LET Joined(posts) ==
            IF posts = <<>> THEN <<>> ELSE posts[1].title \o <<" ">> \o posts[1].selftext
    IN  Joined(SelectSeq(redditResults.posts, LAMBDA p : IncludesId(sources, p.id)))

\* the texts of the documents an establishment was found in
PostText(redditResults, sources) ==
    LET Joined(posts) ==
            JoinSpace([i \in 1..Len(posts) |-> posts[i].title \o <<" ">> \o posts[i].selftext])
    IN  Joined(SelectSeq(redditResults.posts, LAMBDA p : IncludesId(sources, p.id)))

CommentTexts(redditResults, sources) ==
    LET Bodies(comments) == [i \in 1..Len(comments) |-> comments[i].body]
    IN  Bodies(SelectSeq(redditResults.comments, LAMBDA c : IncludesId(sources, c.id)))

\* the sentiment of an aggregated establishment
SentimentOf(redditResults, mentionData) ==
    analyzeRestaurantSentiment(PostText(redditResults, mentionData.sources),
                               CommentTexts(redditResults, mentionData.sources))

\* the sentiment of every establishment of each of the results searchReddit resolves to,
\* worked out once
Sentiments ==
    [r \in DOMAIN RedditResults |->
        [i \in DOMAIN AggregatedMentions[r] |->
            SentimentOf(RedditResults[r], AggregatedMentions[r][i])]]

\* the RestaurantResult pushed for an establishment
RestaurantResult(mentionData, sentiment, mapData) ==
    [name |-> mapData.name, sentimentScore |-> sentiment.score,
     sentimentLabel |-> sentiment.label, sentimentComparative |-> sentiment.comparative,
     mentionCount |-> mentionData.count, mapUrl |-> mapData.url,
     sources |-> mentionData.sources]

\* the comparator of restaurants.sort
CompareRestaurants(a, b) ==
    IF a.mentionCount # b.mentionCount THEN b.mentionCount - a.mentionCount
    ELSE b.sentimentScore - a.sentimentScore

\* x placed behind every element that does not have to follow it: the sort is stable
RECURSIVE InsertRestaurant(_, _)
InsertRestaurant(sorted, x) ==
    IF sorted = <<>> THEN <<x>>
    ELSE IF CompareRestaurants(Head(sorted), x) <= 0
    THEN <<Head(sorted)>> \o InsertRestaurant(Tail(sorted), x)
    ELSE <<x>> \o sorted

RECURSIVE SortFrom(_, _)
SortFrom(sorted, rest) ==
    IF rest = <<>> THEN sorted ELSE SortFrom(InsertRestaurant(sorted, Head(rest)), Tail(rest))

SortRestaurantsOmitted(restaurants) == restaurants

\* restaurants.sort(...)
SortRestaurants(restaurants) == SortFrom(<<>>, restaurants)

SearchResult(query, city, restaurants, t) ==
    [query |-> query, city |-> city, restaurants |-> restaurants,
     totalResults |-> Len(restaurants), cached |-> FALSE, timestamp |-> t]

CatchSearchErrorRethrows(query, city, t) ==
    [threw |-> TRUE, response |-> SearchResult(query, city, <<>>, t)]

\* the outer catch: the empty response, returned and not stored
CatchSearchError(query, city, t) ==
    [threw |-> FALSE, response |-> SearchResult(query, city, <<>>, t)]

\* a catch that stores the empty response it returns
CacheAfterSearchErrorStored(c, key, response, t) == CacheSet(c, key, response, 0, t)

\* the cache after the outer catch, which returns its response without a cacheService.set
CacheAfterSearchError(c, key, response, t) == c

StoreSearchResultOmitted(c, key, result, t) == c

\* a store that adds the call's restaurants to those an overlapping call has stored
StoreSearchResultMerged(c, key, result, t) ==
    CacheSet(c, key,
             IF c[key] = NoEntry THEN result
             ELSE [result EXCEPT !.restaurants = c[key].v.restaurants \o @],
             0, t)

\* cacheService.set(cacheKey, result), the ttl left to its default
StoreSearchResult(c, key, result, t) == CacheSet(c, key, result, 0, t)

\* `if (cached)`: get found an entry that has not run out; a stored SearchResult is truthy
IsSearchCached(c, key, t) == c[key] # NoEntry /\ ~Expired(c[key], t)

\* a hit that hands out the stored response as it is
CachedResponseAsStored(stored) == stored

\* "{ ...cached, cached: true }"
CachedResponse(stored) == [stored EXCEPT !.cached = TRUE]

AfterEnrichThrowAbort(i, n) == n + 1

\* the inner catch ends this establishment's iteration only: the loop goes on with the next
AfterEnrichThrow(i, n) == i + 1

IdleSearch ==
    [pc |-> "idle", city |-> <<>>, query |-> <<>>, cacheKey |-> NoKey,
     redditResults |-> [posts |-> <<>>, comments |-> <<>>], aggregatedMentions |-> <<>>, i |-> 0,
     restaurants |-> <<>>, thrown |-> {}, after |-> NoPrev]

\* what a searchAndAggregate call that settles leaves for the next step to see
Settled(c, call, how, outcome, thrown) ==
    [phase |-> "searched", c |-> c, how |-> how, threw |-> outcome.threw,
     response |-> outcome.response, city |-> call.city, query |-> call.query,
     aggregatedMentions |-> call.aggregatedMentions, thrown |-> thrown,
     after |-> call.after]

\* the latest call to have returned, for the call that comes next
Returned(call, how, response, entry) ==
    [valid |-> TRUE, city |-> call.city, query |-> call.query, how |-> how,
     restaurants |-> response.restaurants, cached |-> response.cached,
     stored |-> entry # NoEntry,
     expires |-> IF entry # NoEntry THEN entry.t ELSE 0]

\* the latest returned call, if it had the same arguments but for the case of their letters
\* and its entry has not run out since
Predecessor(city, query) ==
    IF /\ prev.valid
       /\ toLowerCase(prev.city) = toLowerCase(city)
       /\ toLowerCase(prev.query) = toLowerCase(query)
       /\ prev.stored => ~(prev.expires < now)
    THEN prev ELSE NoPrev

\* searchAndAggregate up to its first await: the cache lookup, and on a hit the return
SearchStart(c, city, query) ==
    LET Hit(call, response) ==
            /\ ret' = Settled(c, call, "hit", [threw |-> FALSE, response |-> response], {})
            /\ prev' = Returned(call, "hit", response, cache[call.cacheKey])
            /\ UNCHANGED <<cache, search>>
        Miss(call) ==
            /\ cache' = TryStore(store, CacheAfterGet(cache, call.cacheKey, now), cache)
            /\ search' = [search EXCEPT ![c] = call]
            /\ ret' = NoRet
            /\ UNCHANGED prev
        Lookup(call) ==
            IF TryStore(store, IsSearchCached(cache, call.cacheKey, now), FALSE)
            THEN Hit(call, CachedResponse(cache[call.cacheKey].v))
            ELSE Miss(call)
    IN  /\ search[c].pc = "idle"
        /\ Lookup([IdleSearch EXCEPT !.pc = "searching", !.city = city, !.query = query,
                                     !.cacheKey = cacheKey(city, query),
                                     !.after = Predecessor(city, query)])
        /\ UNCHANGED <<now, rateLimitTracker, rl, admitted, win, goc, pair, lastSet, pure, store, frontend>>

\* the end of the try block: sort, build the result, store it, return it
FinishSearch(c, call, restaurants, thrown) ==
    LET Stored(result, entries) ==
            /\ cache' = entries
            /\ ret' = Settled(c, call, "fresh", [threw |-> FALSE, response |-> result],
                              thrown)
            /\ prev' = Returned(call, "fresh", result, entries[call.cacheKey])
        Built(result) ==
            Stored(result,
                   TryStore(store, StoreSearchResult(cache, call.cacheKey, result, now), cache))
    IN  /\ Built(SearchResult(call.query, call.city, SortRestaurants(restaurants), now))
        /\ search' = [search EXCEPT ![c] = IdleSearch]

\* searchReddit resolves: extraction and aggregation, then the loop up to its first await
SearchResolves(c, r) ==
    LET Loop(call) ==
            IF call.aggregatedMentions = <<>>
            THEN FinishSearch(c, call, <<>>, {})
            ELSE /\ search' = [search EXCEPT ![c] = [call EXCEPT !.pc = "enriching",
                                                                 !.i = 1]]
                 /\ ret' = NoRet
                 /\ UNCHANGED <<cache, prev>>
    IN  /\ search[c].pc = "searching"
        /\ Loop([search[c] EXCEPT !.redditResults = RedditResults[r],
                                  !.aggregatedMentions = AggregatedMentions[r]])
        /\ UNCHANGED <<now, rateLimitTracker, rl, admitted, win, goc, pair, lastSet, pure, store, frontend>>

\* searchReddit rejects: the outer catch
SearchRejects(c) ==
    LET Caught(call, outcome) ==
            /\ cache' = CacheAfterSearchError(cache, call.cacheKey, outcome.response, now)
            /\ ret' = Settled(c, call, "failed", outcome, {})
            /\ prev' = Returned(call, "failed", outcome.response, cache'[call.cacheKey])
    IN  /\ search[c].pc = "searching"
        /\ Caught(search[c], CatchSearchError(search[c].query, search[c].city, now))
        /\ search' = [search EXCEPT ![c] = IdleSearch]
        /\ UNCHANGED <<now, rateLimitTracker, rl, admitted, win, goc, pair, lastSet, pure, store, frontend>>

\* enrichRestaurantWithMapUrl settles for the establishment in turn: the push or the inner
\* catch, then the next iteration up to its await, or the end of the try block
EnrichSettles(c, reply) ==
    LET Sentiment(call) ==
            LET r == CHOOSE r \in DOMAIN RedditResults :
                         RedditResults[r] = call.redditResults
            IN  Sentiments[r][call.i]
        Continue(call, next, restaurants, thrown) ==
            IF next > Len(call.aggregatedMentions)
            THEN FinishSearch(c, call, restaurants, thrown)
            ELSE /\ search' = [search EXCEPT ![c] = [call EXCEPT !.i = next,
                                                                 !.restaurants = restaurants,
                                                                 !.thrown = thrown]]
                 /\ ret' = NoRet
                 /\ UNCHANGED <<cache, prev>>
        Iteration(call, mentionData, mapData) ==
            IF mapData.threw
            THEN Continue(call, AfterEnrichThrow(call.i, Len(call.aggregatedMentions)),
                          call.restaurants, call.thrown \cup {call.i})
            ELSE Continue(call, call.i + 1,
                          Append(call.restaurants,
                                 RestaurantResult(mentionData, Sentiment(call), mapData)),
                          call.thrown)
        Establishment(call, mentionData) ==
            Iteration(call, mentionData,
                      enrichRestaurantWithMapUrl(mentionData.name, call.city, reply))
    IN  /\ search[c].pc = "enriching"
        /\ Establishment(search[c], search[c].aggregatedMentions[search[c].i])
        /\ UNCHANGED <<now, rateLimitTracker, rl, admitted, win, goc, pair, lastSet, pure, store, frontend>>

\* time passes for the search cache
TickSearch ==
    /\ now < MaxSearchTicks * SearchTickMs
    /\ now' = now + SearchTickMs
    /\ ret' = NoRet
    /\ UNCHANGED <<cache, rateLimitTracker, rl, admitted, win, goc, pair, search, prev,
                   lastSet, pure, store, frontend>>

(* ---------------- the functions of the text pipeline, applied on their own ---------------- *)

\* no such function is being applied
NoApply == [fn |-> "none"]

\* the call fn(args[1], ..) about to be made
Call(fn, args) == [fn |-> fn, args |-> args, done |-> FALSE, result |-> <<>>]

\* the call made: result is what it returned
Apply(fn, result) ==
    /\ pure.fn = fn
    /\ ~pure.done
    /\ pure' = [pure EXCEPT !.done = TRUE, !.result = result]
    /\ UNCHANGED <<now, cache, rateLimitTracker, rl, admitted, win, goc, ret, pair, search,
                   prev, lastSet, store, frontend>>

(* ---------------- initial state ---------------- *)

\* the services as they are once the module is loaded
Loaded ==
    /\ now = 0
    /\ cache = [k \in CacheKeys |-> NoEntry]
    /\ rateLimitTracker = <<>>
    /\ rl = NoRl
    /\ admitted = [i \in Identifiers |-> <<>>]
    /\ win = [i \in Identifiers |-> [start |-> 0, calls |-> 0]]
    /\ goc = [c \in Callers |-> IdleCall]
    /\ ret = NoRet
    /\ pair = NoPair
    /\ search = [c \in SearchCallers \cup ConcurrentCallers |-> IdleSearch]
    /\ prev = NoPrev
    /\ lastSet = [k \in Keys |-> NoWrite]
    /\ store = "up"
    /\ queryState = initialState
    /\ inFlight = <<>>

Init == Loaded /\ pure = NoApply

NextRate ==
    \/ \E identifier \in Identifiers, value \in RateValues : WithRateLimit(identifier, value)
    \/ TickRate

SpecRate == Init /\ [][NextRate]_vars

NextCache ==
    \/ \E c \in Callers, key \in Keys, ttlSeconds \in GetOrComputeTtlArgs :
          GetOrComputeStart(c, key, ttlSeconds)
    \/ \E c \in Callers, value \in Values : GetOrComputeResolve(c, value)
    \/ \E c \in Callers : GetOrComputeReject(c)
    \/ \E key \in Keys, value \in Values, ttlSeconds \in TtlArgs : Set(key, value, ttlSeconds)
    \/ Clear
    \/ TickCache

SpecCache == Init /\ [][NextCache]_vars

NextSearch ==
    \/ \E c \in SearchCallers, args \in SearchArgs : SearchStart(c, args[1], args[2])
    \/ \E c \in SearchCallers, r \in DOMAIN RedditResults : SearchResolves(c, r)
    \/ \E c \in SearchCallers : SearchRejects(c)
    \/ \E c \in SearchCallers, reply \in EnrichReplies : EnrichSettles(c, reply)
    \/ Clear
    \/ TickSearch

SpecSearch == Init /\ [][NextSearch]_vars

\* overlapping searchAndAggregate calls: searchReddit resolves to the posts of the last of
\* RedditResults for each of them, every place lookup is made without an API key
NextConcurrent ==
    \/ \E c \in ConcurrentCallers, args \in ConcurrentArgs : SearchStart(c, args[1], args[2])
    \/ \E c \in ConcurrentCallers : SearchResolves(c, Len(RedditResults))
    \/ \E c \in ConcurrentCallers : SearchRejects(c)
    \/ \E c \in ConcurrentCallers :
          EnrichSettles(c, [kind |-> "nokey", name |-> <<>>, place_id |-> <<>>])

SpecConcurrent == Init /\ [][NextConcurrent]_vars

\* the cache used directly: get, set and clear
NextStore ==
    \/ \E key \in Keys : Get(key)
    \/ \E key \in Keys, value \in Values, ttlSeconds \in TtlArgs : Set(key, value, ttlSeconds)
    \/ Clear
    \/ TickCache

SpecStore == Init /\ [][NextStore]_vars

\* the identifier of the rate-limited requests made next to the cache's clients
StoreIdentifiers == Identifiers \ {OtherIdentifier}

\* what those clients store, each with the default TTL
StoreValues == {"v1"}

\* the cache cleared while rate-limited requests go on
NextClear ==
    \/ \E key \in Keys : Get(key)
    \/ \E key \in Keys, value \in StoreValues : Set(key, value, 0)
    \/ Clear
    \/ \E identifier \in StoreIdentifiers, value \in RateValues :
          WithRateLimit(identifier, value)
    \/ TickCache

SpecClear == Init /\ [][NextClear]_vars

\* the provider's searchQuery and clearQuery called while requests are in flight
NextQuery ==
    \/ \E request \in QueryRequests : SearchQuery(request)
    \/ \E i \in 1..MaxQueries, reply \in QueryReplies : QuerySettles(i, reply)
    \/ ClearQuery

SpecQuery == Init /\ [][NextQuery]_vars

\* the key and the values of the getOrCompute, get and set calls made while the store fails
FaultyKey == <<"k", "e", "y", "1">>

\* one getOrCompute client, one searchAndAggregate client and direct get and set calls while
\* the backing store fails and recovers
NextFaulty ==
    \/ GetOrComputeStart(1, FaultyKey, 0)
    \/ \E value \in Values : GetOrComputeResolve(1, value)
    \/ GetOrComputeReject(1)
    \/ Get(FaultyKey)
    \/ Set(FaultyKey, "v1", 0)
    \/ \E args \in SearchArgs : SearchStart(1, args[1], args[2])
    \/ \E r \in DOMAIN RedditResults : SearchResolves(1, r)
    \/ SearchRejects(1)
    \/ \E reply \in EnrichReplies : EnrichSettles(1, reply)
    \/ StoreTurns

SpecFaulty == Init /\ [][NextFaulty]_vars

\* the mentions aggregateRestaurantMentions is handed: one name in two casings and another
\* name, each found in a post or a comment, once or twice
MentionInputs ==
    {[name |-> name, sourceId |-> sourceId, mentions |-> mentions] :
        name \in {<<"J", "o", "e", "s">>, <<"j", "o", "e", "s">>, <<"M", "o", "e", "s">>},
        sourceId \in {"p1", "c1"},
        mentions \in {1, 2}}

\* what the texts handed to extractRestaurantMentions are put together from: one name quoted
\* in two casings, after a keyword and bare, names of 2, 3, 99 and 100 characters
Fragments ==
    LET LongName(n) == [i \in 1..n |-> IF i = 1 THEN "A" ELSE "a"]
    IN  {<<"\"", "L", "u", "i", "g", "i", "\"">>,
         <<"'", " ", "l", "u", "i", "g", "i", " ", "'">>,
         <<"r", "e", "s", "t", "a", "u", "r", "a", "n", "t", " ", "L", "u", "i", "g", "i">>,
         <<"c", "a", "f", "e", " ", "c", "a", "l", "l", "e", "d", " ", "B", "o", "b">>,
         <<"e", "a", "t", " ", "a", "t", " ", "N", "o", "n", "n", "a">>,
         <<"\"", "A", "B", "\"">>,
         <<"\"", "A", "b", "c", "\"">>,
         <<"M", "o", "e">>,
         <<"\"">> \o LongName(99) \o <<"\"">>,
         <<"'">> \o LongName(100) \o <<"'">>,
         <<"f", "o", "o", "d", " ">> \o LongName(100)}

\* the texts handed to extractRestaurantMentions: the empty one and up to MaxFragments
\* fragments joined by spaces
ExtractTexts ==
    {<<>>} \cup {JoinSpace(parts) : parts \in UNION {[1..n -> Fragments] : n \in 1..MaxFragments}}

\* the texts handed to the sentiment functions: the empty one, one of spaces only, a
\* positive and a negative one, one the scorer throws on, and texts of 7, 9, 10, 11 and 20 words that score -2, 2, 2,
\* 4 and 2
SentimentTexts ==
    {<<>>, <<" ", " ">>, <<"g", "r", "e", "a", "t">>, <<"n", "o", "t", " ", "g", "o", "o", "d">>,
     Unscorable,
     <<"n", "o", "t", " ", "l", "i", "k", "e", " ", "a", " ", "a", " ", "a", " ", "a", " ", "a">>,
     <<"l", "i", "k", "e", " ", "a", " ", "a", " ", "a", " ", "a", " ", "a", " ", "a", " ", "a", " ", "a">>,
     <<"l", "i", "k", "e", " ", "a", " ", "a", " ", "a", " ", "a", " ", "a", " ", "a", " ", "a", " ", "a", " ", "a">>,
     <<"l", "i", "k", "e", " ", "l", "i", "k", "e", " ", "a", " ", "a", " ", "a", " ", "a", " ", "a", " ", "a", " ", "a", " ", "a", " ", "a">>,
     <<"l", "i", "k", "e", " ", "a", " ", "a", " ", "a", " ", "a", " ", "a", " ", "a", " ", "a", " ", "a", " ", "a", " ", "a", " ", "a", " ", "a", " ", "a", " ", "a", " ", "a", " ", "a", " ", "a", " ", "a", " ", "a">>}

\* the calls of function fn of the text pipeline that are gone through
PureCalls(fn) ==
    CASE fn = "aggregateRestaurantMentions" ->
           {Call("aggregateRestaurantMentions", <<mentions>>) :
               mentions \in UNION {[1..n -> MentionInputs] : n \in 0..MaxMentions}}
      [] fn = "extractRestaurantMentions" ->
           {Call("extractRestaurantMentions", <<text, "comment", "c1">>) : text \in ExtractTexts}
      [] fn = "analyzeSentiment" ->
           {Call("analyzeSentiment", <<text>>) : text \in SentimentTexts}
      [] fn = "analyzeRestaurantSentiment" ->
           {Call("analyzeRestaurantSentiment", <<postText, comments>>) :
                     postText \in SentimentTexts,
                     comments \in UNION {[1..n -> SentimentTexts] : n \in 0..MaxComments}}
      [] fn = "searchReddit" ->
           UNION {{Call("searchReddit",
                              <<token, SubSeq(getTargetSubreddits(<<"N", "Y">>), 1, n), replies>>) :
                             token \in {"token", "failed"},
                             replies \in {given \in [1..n -> UNION {RedditReplies(subreddit) :
                                              subreddit \in Range(getTargetSubreddits(<<"N", "Y">>))}] :
                                             \A i \in 1..n :
                                                 given[i] \in RedditReplies(
                                                                 getTargetSubreddits(<<"N", "Y">>)[i])}} :
                          n \in 0..MaxSubreddits}
      [] fn = "getTargetSubreddits" ->
           {Call("getTargetSubreddits", <<city>>) :
                     city \in Cities \cup {<<>>, <<" ">>, <<"N", "e", "w", " ", "Y", "o", "r", "k">>,
                                           <<"f", "o", "o", "d">>, <<"A", "s", "k", " ", "R", "e", "d", "d", "i", "t">>}}
      [] fn = "enrichRestaurantWithMapUrl" ->
           {Call("enrichRestaurantWithMapUrl", <<restaurantName, city, reply>>) :
                     restaurantName \in {<<"L", "u", "i", "g", "i">>, <<"M", "a", LoneSurrogate, "x">>},
                     city \in Cities,
                     reply \in EnrichReplies
                               \cup {[kind |-> "place", name |-> name, place_id |-> <<"i", "d", "1">>] :
                                         name \in {<<"L", "u", "i", "g", "i", "s">>, <<LoneSurrogate>>}}}
      [] fn = "cacheKey" ->
           {Call("cacheKey", <<city, query, otherCity, otherQuery>>) :
                     city \in {<<"a">>, <<"A">>, <<"a", ":", "b">>},
                     query \in {<<"c">>, <<"C">>, <<"b", ":", "c">>},
                     otherCity \in {<<"a">>, <<"a", ":", "b">>},
                     otherQuery \in {<<"c">>, <<"b", ":", "c">>}}

PureFunctions ==
    {"aggregateRestaurantMentions", "extractRestaurantMentions", "analyzeSentiment",
     "analyzeRestaurantSentiment", "searchReddit", "getTargetSubreddits",
     "enrichRestaurantWithMapUrl", "cacheKey"}

InitPure == Loaded /\ \E fn \in PureFunctions : pure \in PureCalls(fn)

NextPure ==
    \/ Apply("aggregateRestaurantMentions", aggregateRestaurantMentions(pure.args[1]))
    \/ Apply("extractRestaurantMentions",
             extractRestaurantMentions(pure.args[1], pure.args[2], pure.args[3]))
    \/ Apply("analyzeSentiment", analyzeSentiment(pure.args[1]))
    \/ Apply("analyzeRestaurantSentiment",
             analyzeRestaurantSentiment(pure.args[1], pure.args[2]))
    \/ Apply("getTargetSubreddits", getTargetSubreddits(pure.args[1]))
    \/ Apply("searchReddit", searchReddit(pure.args[1], pure.args[2], pure.args[3]))
    \/ Apply("enrichRestaurantWithMapUrl",
             enrichRestaurantWithMapUrl(pure.args[1], pure.args[2], pure.args[3]))
    \/ Apply("cacheKey", <<cacheKey(pure.args[1], pure.args[2]),
                           cacheKey(pure.args[3], pure.args[4])>>)

SpecPure == InitPure /\ [][NextPure]_vars

(* ---------------- the rate limiter's properties ---------------- *)

\* C5: within 60 seconds of a first call that found the window empty, each of
\* the first 30 calls for the identifier invokes computeFn and returns its
\* value; the 31st returns null without invoking computeFn.
C5_First30Then31stRefused ==
    (rl.id # "none" /\ rl.at - rl.start < WindowMs) =>
        /\ (rl.n <= maxRequestsPerMinute => rl.invoked /\ rl.result = rl.value)
        /\ (rl.n = maxRequestsPerMinute + 1 => ~rl.invoked /\ rl.result = Null)

C5_Witness ==
    /\ rl.id # "none"
    /\ rl.n = maxRequestsPerMinute + 1
    /\ rl.at - rl.start < WindowMs
    /\ rl.at > rl.start
    /\ ~rl.invoked
    /\ rl.result = Null

\* C6: a withRateLimit call, admitted or refused, changes the window of no
\* identifier but its own, and whether it is admitted is decided by the
\* invocations recorded for its own identifier alone.
C6_IdentifiersIndependent ==
    [][(rl' # rl \/ rateLimitTracker' # rateLimitTracker) =>
          /\ \A b \in Identifiers \ {rl'.id} :
                Requests(rateLimitTracker', b) = Requests(rateLimitTracker, b)
          /\ rl'.invoked <=>
                Len(InWindow(admitted[rl'.id], now)) < maxRequestsPerMinute]_vars

C6_Witness ==
    /\ rl.id = OtherIdentifier
    /\ rl.invoked
    /\ \E a \in Identifiers \ {OtherIdentifier} :
          /\ a \in DOMAIN rateLimitTracker
          /\ ~IsWithinRateLimit(rateLimitTracker, a, now)

\* C7: at every point, at most 30 computeFn invocations of one identifier lie
\* in the trailing 60 seconds.
C7_AtMost30InWindow ==
    \A i \in Identifiers : Len(InWindow(admitted[i], now)) <= maxRequestsPerMinute

C7_Witness ==
    \E i \in Identifiers :
        /\ Len(InWindow(admitted[i], now)) = maxRequestsPerMinute
        /\ admitted[i][1] < admitted[i][maxRequestsPerMinute]
        /\ rl.id = i
        /\ ~rl.invoked

(* ---------------- getOrCompute's properties ---------------- *)

\* C8: a getOrCompute call on a key holding an unexpired value settles at once
\* with that value, does not invoke computeFn, and leaves the entry as it was.
C8_HitReturnsCachedValue ==
    [][\A c \in Callers, k \in Keys :
          (/\ ret'.phase \in {"hit", "suspended"}
           /\ ret'.c = c
           /\ ret'.key = k
           /\ goc[c].pc = "idle"
           /\ cache[k] # NoEntry
           /\ cache[k].t >= now)
          => /\ ret'.phase = "hit"
             /\ ret'.result = cache[k].v
             /\ ret'.invocations = 0
             /\ goc'[c].pc = "idle"
             /\ cache'[k] = cache[k]]_vars

C8_Witness ==
    /\ ret.phase = "hit"
    /\ now > 0
    /\ cache[ret.key] # NoEntry
    /\ cache[ret.key].v = ret.result
    /\ \E c \in Callers : goc[c].pc = "computing" /\ goc[c].key = ret.key

\* C9: a getOrCompute call on an absent (never set, cleared or expired) key
\* invokes computeFn once and suspends; when computeFn resolves, the call has
\* invoked it exactly once, returns the computed value, and the key holds that
\* value unexpired, so a get right after returns it.
C9_MissComputesOnceAndStores ==
    [][\A c \in Callers, k \in Keys :
          /\ (/\ ret'.phase \in {"hit", "suspended"}
              /\ ret'.c = c
              /\ ret'.key = k
              /\ goc[c].pc = "idle"
              /\ (cache[k] = NoEntry \/ cache[k].t < now))
             => /\ ret'.phase = "suspended"
                /\ ret'.invocations = 1
                /\ goc'[c].pc = "computing"
          /\ (/\ ret'.phase = "resolved"
              /\ ret'.c = c
              /\ ret'.key = k
              /\ goc[c].pc = "computing")
             => /\ ret'.invocations = 1
                /\ ret'.result = ret'.computed
                /\ cache'[k] # NoEntry
                /\ cache'[k].v = ret'.computed
                /\ cache'[k].t >= now
                /\ CacheGet(cache', k, now') = ret'.computed]_vars

C9_Witness ==
    /\ ret.phase = "resolved"
    /\ ret.invocations = 1
    /\ now > 0
    /\ cache[ret.key] # NoEntry
    /\ cache[ret.key].v = ret.computed

\* C10: when both of two getOrCompute calls started back to back on one absent
\* key have settled (nothing else having written, cleared or outlived the key),
\* computeFn was invoked once or twice in total, and if either computation
\* resolved the key holds the value of the later write.
C10_RaceKeepsLaterWrite ==
    ret.pairDone =>
        /\ ret.pairInvocations \in 1..2
        /\ ret.pairWrote # Undefined =>
              /\ cache[ret.key] # NoEntry
              /\ cache[ret.key].v = ret.pairWrote
              /\ ret.pairWrote \in Values

C10_Witness ==
    /\ ret.pairDone
    /\ ret.phase = "rejected"
    /\ ret.pairInvocations = 2
    /\ ret.pairWrote \in Values
    /\ cache[ret.key].v = ret.pairWrote

(* ---------------- searchAndAggregate's properties ---------------- *)

\* the call that just returned came next after a returned call with the same city and
\* query, the cache not cleared and the earlier call's entry not run out in between
SecondOfTwo ==
    /\ ret.phase = "searched"
    /\ ret.after.valid
    /\ ret.after.city = ret.city
    /\ ret.after.query = ret.query

\* C1, as stated: of two successive calls with identical (city, query), no clear() and no
\* expiry in between, both return the same restaurants, the first with cached = false and
\* the second with cached = true.
C1_RoundTripAsStated ==
    SecondOfTwo =>
        /\ ret.response.restaurants = ret.after.restaurants
        /\ ~ret.after.cached
        /\ ret.response.cached

\* C1, amended: when the first of the two calls computed and stored its response (it
\* found no cached entry and its content search did not fail), the second is served from
\* the cache: same restaurants, cached = false on the first and cached = true on the second.
C1_RoundTripAfterComputed ==
    (SecondOfTwo /\ ret.after.how = "fresh") =>
        /\ ret.how = "hit"
        /\ ret.response.restaurants = ret.after.restaurants
        /\ ~ret.after.cached
        /\ ret.response.cached

C1_Witness ==
    /\ SecondOfTwo
    /\ ret.after.how = "fresh"
    /\ ret.response.cached
    /\ Len(ret.response.restaurants) >= 2
    /\ ret.response.timestamp < now

\* C2: no call ends by throwing, and a call whose searchReddit threw returns an empty
\* response (restaurants = [], totalResults = 0, cached = false) with its own query and city.
C2_SearchFailureGivesEmptyResponse ==
    ret.phase = "searched" =>
        /\ ~ret.threw
        /\ ret.how = "failed" =>
              /\ ret.response.restaurants = <<>>
              /\ ret.response.totalResults = 0
              /\ ~ret.response.cached
              /\ ret.response.query = ret.query
              /\ ret.response.city = ret.city

C2_Witness ==
    /\ ret.phase = "searched"
    /\ ret.how = "failed"
    /\ ~ret.threw
    /\ \E c \in SearchCallers : search[c] = IdleSearch /\ ret.c = c

\* the aggregated establishments, by position, whose enrichment did not throw
Enriched == DOMAIN ret.aggregatedMentions \ ret.thrown

\* C3: a freshly computed response holds exactly the aggregated establishments whose
\* enrichment did not throw, each once, with its mention count and sources: one that
\* throws takes no other establishment with it.
C3_ExactlyTheThrowingDropped ==
    (ret.phase = "searched" /\ ret.how = "fresh") =>
        /\ Len(ret.response.restaurants) = Cardinality(Enriched)
        /\ \A i \in DOMAIN ret.aggregatedMentions :
              Cardinality({j \in DOMAIN ret.response.restaurants :
                              /\ ret.response.restaurants[j].mentionCount
                                    = ret.aggregatedMentions[i].count
                              /\ ret.response.restaurants[j].sources
                                    = ret.aggregatedMentions[i].sources})
              = Cardinality({k \in Enriched :
                                /\ ret.aggregatedMentions[k].count
                                      = ret.aggregatedMentions[i].count
                                /\ ret.aggregatedMentions[k].sources
                                      = ret.aggregatedMentions[i].sources})

C3_Witness ==
    /\ ret.phase = "searched"
    /\ ret.how = "fresh"
    /\ \E i \in ret.thrown : \E k \in Enriched : k > i
    /\ \E i \in ret.thrown : \E k \in Enriched : k < i
    /\ Len(ret.response.restaurants) = Len(ret.aggregatedMentions) - 1

\* a follows b nowhere it should precede it
InOrder(restaurants) ==
    \A i, j \in DOMAIN restaurants :
        i < j =>
            \/ restaurants[i].mentionCount > restaurants[j].mentionCount
            \/ /\ restaurants[i].mentionCount = restaurants[j].mentionCount
               /\ restaurants[i].sentimentScore >= restaurants[j].sentimentScore

\* C4: every response returned, computed or served from the cache, has its restaurants
\* ordered by mentionCount descending and, among equal mentionCount, by sentimentScore
\* descending.
C4_RestaurantsSorted ==
    ret.phase = "searched" => InOrder(ret.response.restaurants)

C4_Witness ==
    /\ ret.phase = "searched"
    /\ ret.how = "hit"
    /\ \E i, j \in DOMAIN ret.response.restaurants :
          /\ i < j
          /\ ret.response.restaurants[i].mentionCount
                > ret.response.restaurants[j].mentionCount
    /\ \E i, j \in DOMAIN ret.response.restaurants :
          /\ i < j
          /\ ret.response.restaurants[i].mentionCount
                = ret.response.restaurants[j].mentionCount
          /\ ret.response.restaurants[i].sentimentScore
                > ret.response.restaurants[j].sentimentScore

\* what searchReddit resolved to in the call that just returned
ResolvedTo == RedditResults[CHOOSE r \in DOMAIN RedditResults :
                                AggregatedMentions[r] = ret.aggregatedMentions]

\* the text of each post among the sources, title and body
PostTextsOf(redditResults, sources) ==
    LET Texts(posts) == [i \in DOMAIN posts |-> posts[i].title \o <<" ">> \o posts[i].selftext]
    IN  Texts(SelectSeq(redditResults.posts, LAMBDA p : IncludesId(sources, p.id)))

\* the unweighted mean of the sentiments of the texts, each scored by itself: the raw mean
\* in hundredths, the comparative mean in ten-thousandths
MeanSentiment(texts) ==
    LET Mean(sentiments, words) ==
            [score |-> RoundDiv(100 * SumScores(sentiments), Len(sentiments)),
             comparative |-> RoundDiv(10000 * SumComparatives(sentiments, words),
                                      words * Len(sentiments))]
        Of(sentiments) == Mean(sentiments, ProductWords(sentiments))
    IN  IF texts = <<>> THEN [score |-> 0, comparative |-> 0]
        ELSE Of([i \in DOMAIN texts |-> analyzeSentiment(texts[i])])

\* each establishment of the response has the mean sentiment of these texts
SentimentIsMeanOver(TextsOf(_, _)) ==
    \A j \in DOMAIN ret.response.restaurants :
        LET Is(restaurant, mean) ==
                /\ restaurant.sentimentScore = mean.score
                /\ restaurant.sentimentComparative = mean.comparative
        IN  Is(ret.response.restaurants[j],
               MeanSentiment(TextsOf(ResolvedTo, ret.response.restaurants[j].sources)))

\* the contributing documents one by one: each post's title and body, each comment's body
DocumentsOneByOne(redditResults, sources) ==
    PostTextsOf(redditResults, sources) \o CommentTexts(redditResults, sources)

\* the contributing posts' texts joined into one text, then each comment's body
PostsJoinedThenComments(redditResults, sources) ==
    (IF PostTextsOf(redditResults, sources) = <<>> THEN <<>>
     ELSE <<JoinSpace(PostTextsOf(redditResults, sources))>>)
    \o CommentTexts(redditResults, sources)

\* C22, as stated: for each establishment in a search result, the sentiment is the
\* unweighted arithmetic mean over the contributing documents scored one by one: each
\* contributing post's title+body is one scored text and each contributing comment's body
\* is one scored text; the raw mean is rounded to 2 decimals and the comparative mean to 4.
C22_MeanOverDocumentsOneByOne ==
    (ret.phase = "searched" /\ ret.how = "fresh") => SentimentIsMeanOver(DocumentsOneByOne)

\* C22, amended: for each establishment in a search result, the sentiment is the unweighted
\* arithmetic mean over these scored texts: the title+body texts of all contributing posts
\* joined by spaces are one scored text, and each contributing comment's body is one scored
\* text; the raw mean is rounded to 2 decimals and the comparative mean to 4.
C22_MeanOverJoinedPostsAndComments ==
    (ret.phase = "searched" /\ ret.how = "fresh")
        => SentimentIsMeanOver(PostsJoinedThenComments)

\* an establishment found in two posts, and one found in a post and a comment
C22_Witness ==
    /\ ret.phase = "searched"
    /\ ret.how = "fresh"
    /\ \E j \in DOMAIN ret.response.restaurants :
          /\ Len(PostTextsOf(ResolvedTo, ret.response.restaurants[j].sources)) = 2
          /\ ret.response.restaurants[j].sentimentScore # 0

\* C14: a call that comes next after a call that computed and stored its response, with a
\* city and a query that differ from that call's in nothing but the case of letters, and
\* with the entry not cleared or run out in between, is served from the cache: it returns
\* cached = true without a new content search.
C14_KeyIgnoresCase ==
    (ret.phase = "searched" /\ ret.after.valid /\ ret.after.how = "fresh") =>
        /\ ret.how = "hit"
        /\ ret.response.cached

C14_Witness ==
    /\ ret.phase = "searched"
    /\ ret.after.valid
    /\ ret.after.how = "fresh"
    /\ ret.after.city # ret.city
    /\ ret.after.query # ret.query
    /\ ret.how = "hit"
    /\ ret.response.cached
    /\ ret.response.city = ret.after.city
    /\ Len(ret.response.restaurants) >= 1

(* ---------------- the store's properties ---------------- *)

\* C11: get(key) returns the value of the latest set of the key as long as the time that
\* set gave it is not past, and undefined when the key was never set, was cleared since
\* its latest set, or is past that time.
C11_GetReturnsLastSet ==
    ret.phase = "get" =>
        ret.result = IF lastSet[ret.key] = NoWrite \/ lastSet[ret.key].until < now
                     THEN Undefined
                     ELSE lastSet[ret.key].v

C11_Witness ==
    /\ ret.phase = "get"
    /\ ret.result = Undefined
    /\ lastSet[ret.key] # NoWrite
    /\ \E k \in Keys \ {ret.key} :
          /\ lastSet[k] # NoWrite
          /\ lastSet[k].until = now
          /\ CacheGet(cache, k, now) = lastSet[k].v

\* C12: set(key, value, ttlSeconds), also on a key that holds a value, leaves the key with
\* the new value and an expiry counted from the time of the set: ttlSeconds later, or the
\* instance's default TTL later when ttlSeconds is omitted.
C12_SetReplacesAndRestartsExpiry ==
    ret.phase = "set" =>
        cache[ret.key] = [v |-> lastSet[ret.key].v, t |-> lastSet[ret.key].until]

C12_Witness ==
    /\ ret.phase = "set"
    /\ ret.replaced
    /\ now > 0
    /\ lastSet[ret.key].until < now + cacheTTLSeconds * 1000
    /\ cache[ret.key].t = lastSet[ret.key].until

\* C13: clear() leaves get returning undefined for every key, and leaves the requests
\* recorded for every identifier, and with them whether its next request is refused, as
\* they were.
C13_ClearDropsEntriesKeepsWindows ==
    [][(ret' # ret /\ ret'.phase = "cleared") =>
          /\ \A k \in Keys : CacheGet(cache', k, now') = Undefined
          /\ \A i \in Identifiers :
                /\ Requests(rateLimitTracker', i) = Requests(rateLimitTracker, i)
                /\ IsWithinRateLimit(rateLimitTracker', i, now')
                      <=> IsWithinRateLimit(rateLimitTracker, i, now)]_vars

C13_Witness ==
    /\ ret.phase = "cleared"
    /\ ret.held = Keys
    /\ rl.id # "none"
    /\ ~rl.invoked
    /\ rl.at = now
    /\ ~IsWithinRateLimit(rateLimitTracker, rl.id, now)

(* ---------------- aggregateRestaurantMentions' properties ---------------- *)

\* aggregateRestaurantMentions has been applied
Aggregated == pure.fn = "aggregateRestaurantMentions" /\ pure.done

\* the positions of the mentions of the list whose lower-cased name is key
MentionsOf(mentions, key) == {i \in DOMAIN mentions : toLowerCase(mentions[i].name) = key}

\* the smallest of a non-empty set of positions
First(positions) == CHOOSE i \in positions : \A j \in positions : i <= j

\* the sum of the mentions fields at the positions
RECURSIVE SumOfMentions(_, _)
SumOfMentions(mentions, positions) ==
    IF positions = {} THEN 0
    ELSE mentions[First(positions)].mentions
         + SumOfMentions(mentions, positions \ {First(positions)})

\* the lists that hold the same mentions in another order
Reorderings(mentions) ==
    {[i \in DOMAIN mentions |-> mentions[f[i]]] :
        f \in {g \in [DOMAIN mentions -> DOMAIN mentions] :
                  \A a, b \in DOMAIN mentions : g[a] = g[b] => a = b}}

\* C15: the result holds one entry for every distinct lower-cased name of the input and
\* no other, the entry keyed by the lower-cased name and named as the first mention of
\* that name in the input spells it.
C15_OneEntryPerNameFirstCasing ==
    Aggregated =>
        /\ {pure.result[e].key : e \in DOMAIN pure.result}
              = {toLowerCase(pure.args[1][i].name) : i \in DOMAIN pure.args[1]}
        /\ \A e, f \in DOMAIN pure.result :
              pure.result[e].key = pure.result[f].key => e = f
        /\ \A e \in DOMAIN pure.result :
              /\ pure.result[e].key = toLowerCase(pure.result[e].name)
              /\ pure.result[e].name
                    = pure.args[1][First(MentionsOf(pure.args[1], pure.result[e].key))].name

C15_Witness ==
    /\ Aggregated
    /\ Len(pure.result) = 2
    /\ Len(pure.args[1]) = 3
    /\ \E e \in DOMAIN pure.result :
          /\ pure.result[e].name # pure.result[e].key
          /\ \E i \in DOMAIN pure.args[1] : pure.args[1][i].name = pure.result[e].key

\* C16: the count of every entry is the sum of the mentions fields of the input mentions
\* with its lower-cased name, and every reordering of the input gives every name the
\* same count.
C16_CountIsSumInAnyOrder ==
    Aggregated =>
        /\ \A e \in DOMAIN pure.result :
              pure.result[e].count
                = SumOfMentions(pure.args[1], MentionsOf(pure.args[1], pure.result[e].key))
        /\ \A other \in Reorderings(pure.args[1]) :
              {<<r.key, r.count>> : r \in Range(aggregateRestaurantMentions(other))}
                = {<<r.key, r.count>> : r \in Range(pure.result)}

C16_Witness ==
    /\ Aggregated
    /\ Len(pure.args[1]) = 3
    /\ Len(pure.result) = 2
    /\ pure.args[1][1].mentions # pure.args[1][3].mentions
    /\ toLowerCase(pure.args[1][1].name) = toLowerCase(pure.args[1][3].name)
    /\ pure.args[1][1].name # pure.args[1][3].name
    /\ \E e \in DOMAIN pure.result : pure.result[e].count = 3

\* C17: the sources of every entry hold the sourceIds of the mentions with its name, each
\* once, in the order in which they first appear in the input; a document with several
\* mentions of the name is there once, and each of its mentions fields is in the count.
C17_SourcesOnceInFirstOrder ==
    Aggregated =>
        \A e \in DOMAIN pure.result :
            LET sources == pure.result[e].sources
                of == MentionsOf(pure.args[1], pure.result[e].key)
                FirstWith(id) == First({i \in of : pure.args[1][i].sourceId = id})
            IN  /\ Range(sources) = {pure.args[1][i].sourceId : i \in of}
                /\ \A a, b \in DOMAIN sources : sources[a] = sources[b] => a = b
                /\ \A a, b \in DOMAIN sources :
                      a < b => FirstWith(sources[a]) < FirstWith(sources[b])
                /\ pure.result[e].count = SumOfMentions(pure.args[1], of)

C17_Witness ==
    /\ Aggregated
    /\ Len(pure.args[1]) = 3
    /\ Len(pure.result) = 1
    /\ pure.args[1][1].sourceId = pure.args[1][3].sourceId
    /\ pure.args[1][1].sourceId # pure.args[1][2].sourceId
    /\ Len(pure.result[1].sources) = 2
    /\ pure.result[1].count > 3

(* ---------------- extractRestaurantMentions' properties ---------------- *)

\* extractRestaurantMentions has been applied to a text
Extracted == pure.fn = "extractRestaurantMentions" /\ pure.done

\* C18: every mention extractRestaurantMentions returns, from any of the three passes, has
\* a name of at least 3 and at most 99 characters; an empty text returns an empty list.
C18_NamesOf3To99 ==
    Extracted =>
        /\ \A e \in DOMAIN pure.result :
              Len(pure.result[e].name) >= 3 /\ Len(pure.result[e].name) <= 99
        /\ pure.args[1] = <<>> => pure.result = <<>>

\* a quoted name of 99 characters is returned while one of 100 characters in the same text
\* is not
C18_Witness ==
    /\ Extracted
    /\ \E e \in DOMAIN pure.result : Len(pure.result[e].name) = 99
    /\ \E m \in Range(QuotedMatches(pure.args[1], 1)) : Len(trim(m.group)) = 100
    /\ \A e \in DOMAIN pure.result : Len(pure.result[e].name) # 100

\* the candidates a pass finds in the text, in the order it finds them: the name, the
\* position the snippet is taken around, the pass
FoundBy(pass, matches, text) ==
    [i \in DOMAIN matches |->
        [name |-> IF pass = 3 THEN matches[i].group ELSE trim(matches[i].group),
         index |-> IF pass = 3 THEN indexOf(text, matches[i].group) ELSE matches[i].index,
         pass |-> pass]]

\* the finds of the three passes whose names pass the pass's filter, in the order of the passes
Finds(text) ==
    LET Named(found) ==
            SelectSeq(found,
                      LAMBDA f : /\ Len(f.name) < 100
                                 /\ Len(f.name) > (IF f.pass = 3 THEN 3 ELSE 2)
                                 /\ f.pass = 3 => toLowerCase(f.name) \notin Range(restaurantKeywords))
        Third(found) == IF InRestaurantContext(text) THEN found ELSE <<>>
    IN  Named(FoundBy(1, QuotedMatches(text, 1), text)
              \o FoundBy(2, KeywordMatches(text, 1), text)
              \o Third(FoundBy(3, CapitalizedMatches(text, 1), text)))

\* the entry is that of the first find of its key: its name, and the snippet around it
OfFirstFind(entry, text, finds) ==
    LET Is(first) == /\ first # 0
                     /\ entry.name = finds[first].name
                     /\ entry.text = Snippet(text, finds[first].index)
    IN  Is(FirstOf({i \in DOMAIN finds : toLowerCase(finds[i].name) = entry.key}))

\* how often the passes among these find the key
TimesFound(key, finds, passes) ==
    Cardinality({i \in DOMAIN finds :
                    toLowerCase(finds[i].name) = key /\ finds[i].pass \in passes})

\* every find of any pass on a key the map holds leaves name and snippet and adds one to
\* the count
EveryFindCounts(text, result, finds) ==
    \A e \in DOMAIN result :
        /\ OfFirstFind(result[e], text, finds)
        /\ result[e].mentions = TimesFound(result[e].key, finds, {1, 2, 3})

\* the same, a find of the capitalized pass on a key the map holds adding nothing
QuotedAndKeywordFindsCount(text, result, finds) ==
    \A e \in DOMAIN result :
        /\ OfFirstFind(result[e], text, finds)
        /\ result[e].mentions =
              IF TimesFound(result[e].key, finds, {1, 2}) = 0 THEN 1
              ELSE TimesFound(result[e].key, finds, {1, 2})

\* C19, as stated: the three passes share one map keyed by the lower-cased candidate name,
\* and whenever any pass finds a candidate whose key is already in the map, the stored name
\* and snippet stay those of the first find and the stored count is incremented by one.
C19_AnyPassIncrements ==
    Extracted => EveryFindCounts(pure.args[1], pure.result, Finds(pure.args[1]))

\* C19, amended: whenever a pass finds a candidate whose key is already in the map, the
\* stored name and snippet stay those of the first find; the stored count is incremented
\* by one when the quoted or the keyword pass finds it and stays as it is when the
\* capitalized pass finds it.
C19_FirstFindKeptThirdPassSilent ==
    Extracted => QuotedAndKeywordFindsCount(pure.args[1], pure.result, Finds(pure.args[1]))

\* a key found by the quoted, the keyword and the capitalized pass, in another casing first
C19_Witness ==
    /\ Extracted
    /\ \E e \in DOMAIN pure.result :
          /\ pure.result[e].mentions = 2
          /\ \A pass \in {1, 2, 3} :
                TimesFound(pure.result[e].key, Finds(pure.args[1]), {pass}) > 0
          /\ \E f \in Range(Finds(pure.args[1])) :
                toLowerCase(f.name) = pure.result[e].key /\ f.name # pure.result[e].name

(* ---------------- analyzeRestaurantSentiment's properties ---------------- *)

\* analyzeRestaurantSentiment has been applied to a post's text and comments
Combined == pure.fn = "analyzeRestaurantSentiment" /\ pure.done

\* the text is empty, or holds whitespace only
IsBlank(text) == trim(text) = <<>>

\* the result is the one of the texts kept alone: the neutral zero result if none is kept,
\* else their scores summed and divided by their number
AveragesOver(result, kept) ==
    IF kept = <<>> THEN result = [score |-> 0, comparative |-> 0, label |-> "neutral"]
    ELSE /\ result = analyzeRestaurantSentiment(Head(kept), Tail(kept))
         /\ result.score =
               RoundDiv(100 * SumScores([i \in DOMAIN kept |-> analyzeSentiment(kept[i])]),
                        Len(kept))

\* C20, as stated: analyzeRestaurantSentiment ignores empty and whitespace-only texts: they
\* are not scored and do not count in the averaging denominator, and when no other text
\* remains the result is {score: 0, comparative: 0, label: neutral}.
C20_IgnoresEmptyAndBlankTexts ==
    Combined =>
        AveragesOver(pure.result,
                     SelectSeq(<<pure.args[1]>> \o pure.args[2], LAMBDA text : ~IsBlank(text)))

\* C20, amended: analyzeRestaurantSentiment ignores empty texts: they are not scored and do
\* not count in the averaging denominator, and when no other text remains the result is
\* {score: 0, comparative: 0, label: neutral}; a whitespace-only text is scored and counts
\* in the denominator.
C20_IgnoresEmptyTexts ==
    Combined =>
        AveragesOver(pure.result,
                     SelectSeq(<<pure.args[1]>> \o pure.args[2], LAMBDA text : text # <<>>))

\* an empty text, one of spaces only and a rated one: the average is over two texts
C20_Witness ==
    /\ Combined
    /\ \E i \in DOMAIN pure.args[2] : pure.args[2][i] = <<>>
    /\ \E i \in DOMAIN pure.args[2] : pure.args[2][i] # <<>> /\ IsBlank(pure.args[2][i])
    /\ pure.args[1] = <<"g", "r", "e", "a", "t">>
    /\ pure.result.score = 150
    /\ pure.result.label = "positive"

\* analyzeSentiment has been applied to a text
Scored == pure.fn = "analyzeSentiment" /\ pure.done

\* the label that goes with a comparative of num / den, den > 0
LabelOf(num, den) ==
    IF 10 * num > den THEN "positive" ELSE IF 10 * num < 0 - den THEN "negative" ELSE "neutral"

\* C21: in every sentiment result returned, single-text (analyzeSentiment) or combined
\* (analyzeRestaurantSentiment), the label is positive exactly when the returned comparative
\* is greater than 0.1, negative exactly when it is less than -0.1, and neutral otherwise;
\* a returned comparative of exactly 0.1 or -0.1 carries the label neutral.
C21_LabelFollowsReturnedComparative ==
    /\ Scored => pure.result.label = LabelOf(pure.result.score, pure.result.words)
    /\ Combined => pure.result.label = LabelOf(pure.result.comparative, 10000)

\* the combined result of three texts whose comparatives average 208/2079: the label is
\* positive, the comparative returned is 0.1
C21_Witness ==
    /\ Combined
    /\ Len(pure.args[2]) = 2
    /\ pure.result.comparative = 1000
    /\ pure.result.label = "positive"

\* the texts but for those the scorer throws on
Scorable(texts) == SelectSeq(texts, LAMBDA text : text # Unscorable)

\* C23: if the underlying scorer throws for one text, analyzeSentiment returns
\* {score: 0, comparative: 0, label: neutral} for that text, and analyzeRestaurantSentiment
\* still returns a result averaged over all texts instead of throwing: the text counts as
\* one that scores 0.
C23_ScorerErrorCountsAsNeutralZero ==
    /\ (Scored /\ pure.args[1] = Unscorable) =>
          pure.result = [score |-> 0, words |-> 1, label |-> "neutral"]
    /\ (Combined /\ \E i \in DOMAIN pure.args[2] : pure.args[2][i] = Unscorable) =>
          LET Averaged(texts) ==
                  /\ DOMAIN pure.result = {"score", "comparative", "label"}
                  /\ pure.result.score =
                        RoundDiv(100 * SumScores([i \in DOMAIN Scorable(texts) |->
                                                    analyzeSentiment(Scorable(texts)[i])]),
                                 Len(texts))
          IN  Averaged(SelectSeq(<<pure.args[1]>> \o pure.args[2], LAMBDA text : text # <<>>))

\* a rated text and one the scorer throws on: the mean is that of two texts
C23_Witness ==
    /\ Combined
    /\ pure.args[1] = <<"g", "r", "e", "a", "t">>
    /\ pure.args[2] = <<Unscorable>>
    /\ pure.result = [score |-> 150, comparative |-> 15000, label |-> "positive"]

(* ---------------- enrichRestaurantWithMapUrl's properties ---------------- *)

\* enrichRestaurantWithMapUrl has been applied to a name, a city and what the environment
\* answers
EnrichedWithMapUrl == pure.fn = "enrichRestaurantWithMapUrl" /\ pure.done

\* no API key, no result, or a request that fails
FallsBack == pure.args[3].kind \in {"nokey", "noresult", "failed"}

\* the name or the city holds a surrogate without its pair
HoldsLoneSurrogate == LoneSurrogate \in Range(pure.args[1]) \cup Range(pure.args[2])

\* the call returned a url, and in the three cases the given name with the generic search URL
ReturnsUsableUrl ==
    /\ ~pure.result.threw
    /\ pure.result.url # <<>>
    /\ FallsBack =>
          /\ pure.result.name = pure.args[1]
          /\ pure.result.url
                = SearchUrlBase
                  \o encodeURIComponent(pure.args[1] \o <<" ">> \o pure.args[2]).text

Targeted == pure.fn = "getTargetSubreddits" /\ pure.done

\* the city name with its whitespace stripped
Stripped(city) == SelectSeq(city, LAMBDA c : ~IsSpace(c))

\* the list has no duplicates and no empty string and holds the four base channels, the
\* fallback channel and, the name derived from the city not being empty, that name and that
\* name suffixed with "food"
ListsChannels(list, cityName) ==
    /\ \A i, j \in DOMAIN list : list[i] = list[j] => i = j
    /\ <<>> \notin Range(list)
    /\ {<<"f", "o", "o", "d">>, <<"r", "e", "s", "t", "a", "u", "r", "a", "n", "t", "s">>, <<"f", "o", "o", "d", "i", "t">>,
        <<"e", "a", "t", "i", "n", "g", "o", "u", "t">>, <<"A", "s", "k", "R", "e", "d", "d", "i", "t">>} \subseteq Range(list)
    /\ cityName # <<>> => {cityName, cityName \o <<"f", "o", "o", "d">>} \subseteq Range(list)

\* C26, as stated: for every city, getTargetSubreddits returns a list with no duplicates and
\* no empty string that contains the four base channels, the fallback channel, and the two
\* city-derived names (the city name with whitespace stripped, and that name suffixed with
\* "food") whenever the stripped city name is non-empty.
C26_HoldsStrippedCityName ==
    Targeted => ListsChannels(pure.result, Stripped(pure.args[1]))

\* C26, amended: the two city-derived names are the lower-cased city name with whitespace
\* stripped, and that name suffixed with "food".
C26_HoldsLowerCasedStrippedCityName ==
    Targeted => ListsChannels(pure.result, toLowerCase(Stripped(pure.args[1])))

\* a city of two capitalized words: seven channels, newyork and newyorkfood among them
C26_Witness ==
    /\ Targeted
    /\ \E i \in DOMAIN pure.args[1] : IsSpace(pure.args[1][i])
    /\ \E i \in DOMAIN pure.args[1] : IsUpper(pure.args[1][i])
    /\ Len(pure.result) = 7
    /\ pure.result[5] = toLowerCase(Stripped(pure.args[1]))

(* ---------------- searchReddit's properties ---------------- *)

\* searchReddit has been applied to subreddits and the answers of the Reddit API
Searched == pure.fn = "searchReddit" /\ pure.done /\ pure.args[1] # "failed"

\* the ids of the children of this kind in the listings of the requests that succeeded, in
\* the order of the subreddits
RECURSIVE IdsOfSucceeded(_, _)
IdsOfSucceeded(replies, kind) ==
    IF replies = <<>> THEN <<>>
    ELSE (IF Head(replies).kind = "failed" THEN <<>>
          ELSE LET Ids(children) == [i \in DOMAIN children |-> children[i].id]
               IN  Ids(SelectSeq(Head(replies).children, LAMBDA child : child.kind = kind)))
         \o IdsOfSucceeded(Tail(replies), kind)

\* C25: in searchReddit, a failure of the request for one subreddit does not abort the call:
\* the remaining subreddits are still searched in order and the call returns the posts and
\* comments collected from the subreddits that succeeded.
C25_SubredditFailureDoesNotAbort ==
    Searched =>
        /\ ~pure.result.threw
        /\ pure.result.requested = pure.args[2]
        /\ [i \in DOMAIN pure.result.posts |-> pure.result.posts[i].id]
              = IdsOfSucceeded(pure.args[3], "t3")
        /\ [i \in DOMAIN pure.result.comments |-> pure.result.comments[i].id]
              = IdsOfSucceeded(pure.args[3], "t1")

\* the request for the second of three subreddits fails, the first and the third give a
\* post and a comment each
C25_Witness ==
    /\ Searched
    /\ Len(pure.args[2]) = 3
    /\ pure.args[3][2].kind = "failed"
    /\ Len(pure.result.posts) = 2
    /\ Len(pure.result.comments) = 2
    /\ pure.result.requested[3] = pure.args[2][3]

(* ---------------- C27: a failing backing store ---------------- *)

\* C27: a failure of the cache's backing store during get or set is never seen by the
\* caller: while the store fails, get returns undefined (a miss), set and every other call
\* leave the cache as it is, getOrCompute never reports a hit and returns what computeFn
\* resolved to, and searchAndAggregate does not throw and returns a response it computed.
C27_StoreFailureNeverSeen ==
    [][store = "down" /\ store' = "down" =>
          /\ cache' = cache
          /\ ret'.phase = "get" => ret'.result = Undefined
          /\ ret'.phase # "hit"
          /\ ret'.phase = "resolved" => ret'.result = ret'.computed
          /\ ret'.phase = "searched" =>
                 /\ ~ret'.threw
                 /\ ret'.how # "hit"
                 /\ ~ret'.response.cached
                 /\ ret'.response.timestamp = now]_vars

\* get called for a key that holds an unexpired entry while the store fails: a miss
C27_Witness ==
    /\ store = "down"
    /\ ret.phase = "get"
    /\ cache[ret.key] # NoEntry
    /\ ~Expired(cache[ret.key], now)
    /\ ret.result = Undefined

(* ---------------- C28: the states of QueryProvider ---------------- *)

\* C28: QueryProvider.searchQuery first sets queryState to {status: loading, data: null,
\* total: 0}, and when the request settles sets exactly one of {status: success, data and
\* total from the response} or {status: error, data: null, total: 0, error message};
\* clearQuery resets queryState to the initial {status: idle, data: null, total: 0}.
C28_QueryStateFollowsRequest ==
    /\ ret.phase = "searchQuery" =>
           queryState = [status |-> "loading", data |-> Null, total |-> 0]
    /\ ret.phase = "settled" /\ ret.reply.kind = "response" =>
           queryState = [status |-> "success", data |-> ret.reply.results,
                         total |-> ret.reply.total]
    /\ ret.phase = "settled" /\ ret.reply.kind # "response" =>
           /\ DOMAIN queryState = {"status", "data", "total", "error"}
           /\ queryState.status = "error"
           /\ queryState.data = Null
           /\ queryState.total = 0
           /\ queryState.error \in
                  IF ret.reply.kind # "axios error" THEN {"An unknown error occurred"}
                  ELSE IF Truthy(ret.reply.error) THEN {ret.reply.error}
                  ELSE {ret.reply.message}
    /\ ret.phase = "clearQuery" =>
           queryState = [status |-> "idle", data |-> Null, total |-> 0]

\* of two requests in flight one has failed with the server's error text, the other is
\* still awaited
C28_Witness ==
    /\ ret.phase = "settled"
    /\ ret.reply.kind = "axios error"
    /\ queryState.status = "error"
    /\ queryState.error = "Server error"
    /\ Len(inFlight) = 1

(* ---------------- C29: what a cache hit leaves alone ---------------- *)

\* C29: a searchAndAggregate call that hits the cache invokes neither the content-search
\* client nor the place-lookup client (it returns without ever awaiting one of them), does
\* not write the cache, and returns the stored response with every field except cached
\* unchanged, including the timestamp of the original computation, which is the time the
\* entry was written.
C29_HitReturnsStoredResponse ==
    [][ret'.phase = "searched" /\ ret'.how = "hit" =>
          LET entry == cache[cacheKey(ret'.city, ret'.query)]
          IN  /\ cache' = cache
              /\ search' = search
              /\ search[ret'.c].pc = "idle"
              /\ ~ret'.threw
              /\ ret'.response.cached
              /\ ~entry.v.cached
              /\ ret'.response = [entry.v EXCEPT !.cached = TRUE]
              /\ ret'.response.timestamp = entry.t - cacheTTLSeconds * 1000]_vars

\* a hit, later than the computation, on a response that lists an establishment
C29_Witness ==
    /\ ret.phase = "searched"
    /\ ret.how = "hit"
    /\ ret.response.timestamp < now
    /\ ret.response.restaurants # <<>>
    /\ ret.response.cached

(* ---------------- C30: the sliding rate window ---------------- *)

\* the recorded timestamps of the identifier that are newer than 60 seconds at time t
NewerThanWindow(recorded, t) == {i \in DOMAIN recorded : recorded[i] > t - WindowMs}

\* C30: the rate window slides: a withRateLimit call is admitted exactly when fewer than 30
\* of the identifier's recorded timestamps are newer than 60 seconds, which for an
\* identifier at its limit is once its oldest recorded request is 60 seconds old or older;
\* at that admission the timestamps 60 seconds old or older are dropped and the newer ones
\* kept in order, followed by the time of the call; a refusal records nothing, and nothing
\* but a call changes what is recorded (there is no reset operation).
C30_WindowSlides ==
    [][LET id == rl'.id
           recorded == Requests(rateLimitTracker, id)
           newer == Cardinality(NewerThanWindow(recorded, now))
           kept == rateLimitTracker'[id]
       IN  IF rl' = rl THEN rateLimitTracker' = rateLimitTracker
           ELSE /\ rl'.invoked <=> newer < maxRequestsPerMinute
                /\ Len(recorded) = maxRequestsPerMinute =>
                       (rl'.invoked <=> recorded[1] <= now - WindowMs)
                /\ rl'.invoked =>
                       /\ \A i \in DOMAIN kept : kept[i] > now - WindowMs
                       /\ kept = SubSeq(recorded, Len(recorded) - newer + 1, Len(recorded))
                                    \o <<now>>
                /\ ~rl'.invoked => rateLimitTracker' = rateLimitTracker
                /\ \A other \in DOMAIN rateLimitTracker \ {id} :
                       rateLimitTracker'[other] = rateLimitTracker[other]]_vars

\* an identifier refused at its limit is admitted 60 seconds after its oldest request, and
\* the timestamps of the requests made before are gone
C30_Witness ==
    /\ rl.invoked
    /\ rl.refused # -1
    /\ rl.at = now
    /\ rl.at - rl.refused = WindowMs
    /\ rateLimitTracker[rl.id] = <<now>>

(* ---------------- C31: overlapping searchAndAggregate calls ---------------- *)

\* a response as one call builds it: each establishment once, in order, and counted
WellFormed(response) ==
    /\ response.totalResults = Len(response.restaurants)
    /\ InOrder(response.restaurants)
    /\ \A i, j \in DOMAIN response.restaurants :
           response.restaurants[i].name = response.restaurants[j].name => i = j

\* C31: under every interleaving of concurrent searchAndAggregate calls, for the same or
\* for different keys, every value stored in the search cache is a complete response
\* produced by one call (cached = false, restaurants sorted, totalResults equal to the list
\* length, stored under the key of its own city and query), and every call returns a
\* well-formed response.
C31_StoredResponsesComplete ==
    /\ \A k \in DOMAIN cache :
           cache[k] # NoEntry =>
               /\ ~cache[k].v.cached
               /\ WellFormed(cache[k].v)
               /\ cacheKey(cache[k].v.city, cache[k].v.query) = k
    /\ ret.phase = "searched" =>
           /\ ~ret.threw
           /\ WellFormed(ret.response)
           /\ ret.response.cached <=> ret.how = "hit"

\* a call has stored and returned its response of two establishments while another call
\* for the same key, begun before the entry was there, is still at its place lookups
C31_Witness ==
    /\ ret.phase = "searched"
    /\ ret.how = "fresh"
    /\ Len(ret.response.restaurants) >= 2
    /\ cache[cacheKey(ret.city, ret.query)] # NoEntry
    /\ \E c \in ConcurrentCallers \ {ret.c} :
           /\ search[c].pc = "enriching"
           /\ search[c].cacheKey = cacheKey(ret.city, ret.query)
           /\ search[c].restaurants # <<>>

(* ---------------- C32: a failed content search and the cache ---------------- *)

\* C32: a searchAndAggregate call whose content search throws leaves the cache unchanged
\* when it returns: the fallback empty response is not stored, so the next call with the
\* same (city, query), when the failed call left its key without an entry, calls the
\* content-search client again (it ends computed or failed, not as a hit) and returns
\* cached = false.
C32_FailedSearchNotStored ==
    [][ret'.phase = "searched" =>
          /\ ret'.how = "failed" => cache' = cache
          /\ (ret'.after.valid /\ ret'.after.how = "failed" /\ ~ret'.after.stored) =>
                 /\ ret'.how \in {"fresh", "failed"}
                 /\ ~ret'.response.cached]_vars

\* a call has computed a response of two establishments right after a call with the same
\* city and query whose content search had thrown
C32_Witness ==
    /\ ret.phase = "searched"
    /\ ret.after.valid
    /\ ret.after.how = "failed"
    /\ ~ret.after.stored
    /\ ret.after.city = ret.city
    /\ ret.after.query = ret.query
    /\ ret.how = "fresh"
    /\ Len(ret.response.restaurants) >= 2
    /\ ~ret.response.cached

(* ---------------- C33: the query and city of a response ---------------- *)

\* C33: every response returned by searchAndAggregate carries query and city fields equal
\* to the query and city arguments of the call that returned it, also when the response is
\* served from the cache.
C33_ResponseEchoesArguments ==
    ret.phase = "searched" =>
        /\ ret.response.query = ret.query
        /\ ret.response.city = ret.city

\* a call served from the cache returns the query and the city of the call that stored
\* the entry, spelt otherwise than its own arguments
C33_Witness ==
    /\ ret.phase = "searched"
    /\ ret.how = "hit"
    /\ ret.response.city # ret.city
    /\ ret.response.query # ret.query
    /\ toLowerCase(ret.response.city) = toLowerCase(ret.city)
    /\ toLowerCase(ret.response.query) = toLowerCase(ret.query)

(* ---------------- C34: refused calls and the rate window ---------------- *)

\* the earliest time at which a request is admitted for an identifier with these recorded
\* timestamps: at once while fewer than 30 are recorded, otherwise 60 seconds after the
\* 30th newest of them
AdmittedFrom(recorded) ==
    IF Len(recorded) < maxRequestsPerMinute THEN 0
    ELSE recorded[Len(recorded) - maxRequestsPerMinute + 1] + WindowMs

\* C34: a refused withRateLimit call records no timestamp, so repeated calls while an
\* identifier is refused do not extend the time until that identifier is admitted again:
\* the time from which it is admitted stays 60 seconds after its oldest recorded request,
\* and a call made then is admitted however many refusals came before.
C34_RefusalRecordsNothing ==
    [][rl' # rl =>
          LET recorded == Requests(rateLimitTracker, rl'.id)
          IN  /\ ~rl'.invoked =>
                     /\ rateLimitTracker' = rateLimitTracker
                     /\ AdmittedFrom(Requests(rateLimitTracker', rl'.id))
                            = AdmittedFrom(recorded)
                     /\ Len(recorded) = maxRequestsPerMinute
                     /\ AdmittedFrom(recorded) = recorded[1] + WindowMs
              /\ rl'.invoked <=> now >= AdmittedFrom(recorded)]_vars

\* a request admitted 60 seconds after the oldest recorded one, after the identifier was
\* refused twice in a row, the second time half a window after that oldest request
C34_Witness ==
    /\ rl.invoked
    /\ rl.refusals >= 2
    /\ rl.at = now
    /\ rl.refused > 0
    /\ rl.at - rl.refused < WindowMs
    /\ Len(rateLimitTracker[rl.id]) < maxRequestsPerMinute

(* ---------------- C35: computeFn rejecting inside getOrCompute ---------------- *)

\* C35: if computeFn rejects inside getOrCompute on an absent key, the rejection reaches
\* the caller (the call ends rejected, without a value) and nothing is stored: the cache is
\* left as it is, so the key stays absent, and a getOrCompute on that key that comes next,
\* the key still absent, invokes computeFn again.
C35_RejectionStoresNothing ==
    [][/\ ret'.phase = "rejected" =>
              /\ ret'.result = Undefined
              /\ goc[ret'.c].pc = "computing"
              /\ goc'[ret'.c].pc = "idle"
              /\ cache' = cache
              /\ CacheGet(cache, ret'.key, now) = Undefined
                     => CacheGet(cache', ret'.key, now') = Undefined
       /\ (/\ ret.phase = "rejected"
           /\ ret'.phase \in {"hit", "suspended"}
           /\ ret'.key = ret.key
           /\ CacheGet(cache, ret.key, now) = Undefined)
          => /\ ret'.phase = "suspended"
             /\ ret'.invocations = 1
             /\ goc'[ret'.c].pc = "computing"]_vars

\* a call on a key that was absent has just been rejected, a clock step after it began:
\* the key is absent still and the caller is free for its next call
C35_Witness ==
    /\ ret.phase = "rejected"
    /\ ret.invocations = 1
    /\ now > 0
    /\ cache[ret.key] = NoEntry
    /\ goc[ret.c].pc = "idle"

(* ---------------- C36: counts and sources of a response ---------------- *)

\* C36: in every response of searchAndAggregate, totalResults equals the length of
\* restaurants, and every restaurant has a duplicate-free, non-empty sources list and a
\* mentionCount that is at least the number of its sources.
C36_CountsAndSourcesConsistent ==
    ret.phase = "searched" =>
        /\ ret.response.totalResults = Len(ret.response.restaurants)
        /\ \A i \in DOMAIN ret.response.restaurants :
               LET restaurant == ret.response.restaurants[i]
               IN  /\ restaurant.sources # <<>>
                   /\ \A a, b \in DOMAIN restaurant.sources :
                          restaurant.sources[a] = restaurant.sources[b] => a = b
                   /\ restaurant.mentionCount >= Len(restaurant.sources)

\* a response with an establishment named in the title and the body of one post and in
\* another post: three mentions from two sources
C36_Witness ==
    /\ ret.phase = "searched"
    /\ ret.how = "fresh"
    /\ \E i \in DOMAIN ret.response.restaurants :
           /\ Len(ret.response.restaurants[i].sources) = 2
           /\ ret.response.restaurants[i].mentionCount = 3

(* ---------------- C37: the cache keys of different searches ---------------- *)

\* C37: two calls of searchAndAggregate share a cache entry only if their lower-cased
\* cities are equal and their lower-cased queries are equal: distinct (lower-cased city,
\* lower-cased query) pairs never map to the same cache key.
C37_DistinctSearchesDistinctKeys ==
    (pure.fn = "cacheKey" /\ pure.done /\ pure.result[1] = pure.result[2]) =>
        /\ toLowerCase(pure.args[1]) = toLowerCase(pure.args[3])
        /\ toLowerCase(pure.args[2]) = toLowerCase(pure.args[4])

\* the keys of city "a:b", query "c" and of city "a", query "b:c" are both "search:a:b:c"
C37_Witness ==
    /\ pure.fn = "cacheKey"
    /\ pure.done
    /\ pure.args = <<<<"a", ":", "b">>, <<"c">>, <<"a">>, <<"b", ":", "c">>>>
    /\ pure.result[1] = <<"s", "e", "a", "r", "c", "h", ":", "a", ":", "b", ":", "c">>
    /\ pure.result[2] = pure.result[1]

(* ---------------- C38: overlapping searchQuery calls ---------------- *)

====
